---- MODULE Spec2Model ----
(***************************************************************************)
(* Model of the MTWM mixing-tree planner: the ratio factorizer             *)
(* (find_factors_for_sum), the DFMM tree builder and P-value calculator,   *)
(* the problem model (peer nodes, potential_sources_map), the CP model     *)
(* that OrToolsSolver asserts, the solve() wrapper and analyze().          *)
(*                                                                         *)
(* Conventions: Python lists are sequences (1-based here, so list[i] is    *)
(* seq[i+1]); node identifiers keep the source's 0-based tuples            *)
(* <<target_idx, level, node_idx>>; the peer tag "R" is the integer R;     *)
(* Python None is the empty sequence <<>> and a present value x is <<x>>,  *)
(* except for the numeric configuration knobs, where None is NoneVal.      *)
(***************************************************************************)
EXTENDS Integers, Sequences, FiniteSets, TLC

VARIABLES pc, Config, targets_config, target_i, remaining_sum, factors,
          found, tree_structures, p_value_maps, peer_nodes,
          potential_sources_map, built, status, best_model, best_value,
          best_analysis, raised

vars == <<pc, Config, targets_config, target_i, remaining_sum, factors,
          found, tree_structures, p_value_maps, peer_nodes,
          potential_sources_map, built, status, best_model, best_value,
          best_analysis, raised>>

(***************************************************************************)
(* Bounds of the model.                                                    *)
(***************************************************************************)
\* largest single ratio value drawn for the factorizer runs
MaxRatioF == 14
\* largest MAX_MIXER_SIZE drawn for the factorizer runs
MaxMixerF == 6
\* structure runs: number of targets, reagents per target, largest ratio
\* sum, largest factor of a manual factor list, largest MAX_LEVEL_DIFF
MaxTargets == 2
MaxReagents == 3
MaxSum == 8
MaxFactor == 3
MaxLevelDiff == 1
MaxSolveTargets == 2
MaxSolveSum == 8
MaxSolveFirst == 2
\* forest runs: reagents of the target, largest ratio, largest factor and
\* number of levels of its factor list
MaxForestReagents == 3
MaxForestRatio == 8
MaxForestFactor == 3
MaxForestLevels == 3
\* option runs: slack of the excess variables of a FEASIBLE solution, largest
\* MAX_SHARED_INPUTS, largest MAX_TOTAL_REAGENT_INPUT_PER_NODE, largest ratio
\* sum and first ratio; pruned runs: reagents of the three-reagent targets,
\* number, ratio sum and first ratio of the two-reagent targets
MaxExcessSlack == 1
MaxFanIn == 1
MaxReagentCap == 1
MaxOptionSum == 6
MaxOptionFirst == 3
MaxSymReagents == 3
MaxPeerTargets == 3
MaxPeerSum == 8
MaxPeerFirst == 1

(***************************************************************************)
(* Generic helpers.                                                        *)
(***************************************************************************)
NoneVal == 0 - 1
R == 0 - 1
INF == 999999

RECURSIVE SumSeq(_)
SumSeq(s) == IF s = <<>> THEN 0 ELSE Head(s) + SumSeq(Tail(s))

RECURSIVE prod(_)
prod(s) == IF s = <<>> THEN 1 ELSE Head(s) * prod(Tail(s))

MaxOf(S) == CHOOSE x \in S : \A y \in S : y <= x
MinOf(S) == CHOOSE x \in S : \A y \in S : x <= y

\* math.ceil(a / b) for a >= 0, b > 0
Ceil(a, b) == (a + b - 1) \div b

\* math.floor(a / b) for a >= 0, b > 0
Floor(a, b) == a \div b

\* sorted(factors, reverse=True)
RECURSIVE SortDesc(_)
SortDesc(s) ==
    IF s = <<>> THEN <<>>
    ELSE LET m == MaxOf({s[i] : i \in DOMAIN s})
             i == MinOf({j \in DOMAIN s : s[j] = m})
             rest == [j \in 1..(Len(s) - 1) |-> IF j < i THEN s[j] ELSE s[j + 1]]
         IN <<m>> \o SortDesc(rest)

BaseConfig ==
    [MODE |-> "manual",
     MAX_MIXER_SIZE |-> 5,
     OPTIMIZATION_MODE |-> "waste",
     PEER_CONNECTION_MODE |-> "fixed",
     PEER_NODE_LIMIT |-> <<"half_p_group", 0>>,
     MAX_LEVEL_DIFF |-> NoneVal,
     MAX_SHARING_VOLUME |-> NoneVal,
     MAX_SHARED_INPUTS |-> NoneVal,
     MAX_TOTAL_REAGENT_INPUT_PER_NODE |-> NoneVal,
     ENABLE_FINAL_PRODUCT_SHARING |-> FALSE,
     ENABLE_ROLE_BASED_PRUNING |-> FALSE,
     INTER_SHARING_MODE |-> "all"]

(***************************************************************************)
(* find_factors_for_sum, one while-iteration per step, as called from      *)
(* StandardRunner.run in 'auto' mode for targets_config[target_i].         *)
(***************************************************************************)
ratio_sum == SumSeq(targets_config[target_i].ratios)
max_factor == Config.MAX_MIXER_SIZE

\* the divisor scan started one above max_factor
Divisors_over_max(n) == {d \in 2..(max_factor + 1) : n % d = 0}

\* the divisor scan started one below max_factor
Divisors_skip_max(n) == {d \in 2..(max_factor - 1) : n % d = 0}

\* the for loop of one while-iteration: the largest divisor in max_factor..2
Divisors(n) == {d \in 2..max_factor : n % d = 0}

\* lines 23-27: early return of [] or loop entry
FindFactorsEnter ==
    /\ pc = "auto_call"
    /\ IF ratio_sum <= 1
       THEN /\ found' = [none |-> FALSE, factors |-> <<>>]
            /\ pc' = "auto_returned"
            /\ UNCHANGED <<remaining_sum, factors>>
       ELSE /\ remaining_sum' = ratio_sum
            /\ factors' = <<>>
            /\ pc' = "auto_loop"
            /\ UNCHANGED found
    /\ UNCHANGED <<Config, targets_config, target_i, tree_structures,
                   p_value_maps, peer_nodes, potential_sources_map, built,
                   status, best_model, best_value, best_analysis, raised>>

\* lines 30-47: one iteration of the while loop
FindFactorsIterate ==
    /\ pc = "auto_loop"
    /\ remaining_sum > 1
    /\ IF Divisors(remaining_sum) # {}
       THEN LET divisor == MaxOf(Divisors(remaining_sum))
            IN /\ factors' = Append(factors, divisor)
               /\ remaining_sum' = remaining_sum \div divisor
               /\ UNCHANGED <<pc, found>>
       ELSE /\ found' = [none |-> TRUE, factors |-> <<>>]
            /\ pc' = "auto_returned"
            /\ UNCHANGED <<remaining_sum, factors>>
    /\ UNCHANGED <<Config, targets_config, target_i, tree_structures,
                   p_value_maps, peer_nodes, potential_sources_map, built,
                   status, best_model, best_value, best_analysis, raised>>

\* line 50: loop exit and sorted return
FindFactorsReturn ==
    /\ pc = "auto_loop"
    /\ remaining_sum <= 1
    /\ found' = [none |-> FALSE, factors |-> SortDesc(factors)]
    /\ pc' = "auto_returned"
    /\ UNCHANGED <<Config, targets_config, target_i, remaining_sum, factors,
                   tree_structures, p_value_maps, peer_nodes,
                   potential_sources_map, built, status, best_model,
                   best_value, best_analysis, raised>>

\* StandardRunner.run lines 43-51: raise on None, else store the factors and
\* go on with the next target (or leave the loop)
RunnerTakeFactors ==
    /\ pc = "auto_returned"
    /\ IF found.none
       THEN /\ raised' = "ValueError"
            /\ pc' = "error"
            /\ UNCHANGED <<targets_config, target_i>>
       ELSE /\ targets_config' =
                  [targets_config EXCEPT ![target_i].factors = found.factors]
            /\ IF target_i < Len(targets_config)
               THEN /\ target_i' = target_i + 1
                    /\ pc' = "auto_call"
               ELSE /\ pc' = "build_forest"
                    /\ UNCHANGED target_i
            /\ UNCHANGED raised
    /\ UNCHANGED <<Config, remaining_sum, factors, found, tree_structures,
                   p_value_maps, peer_nodes, potential_sources_map, built,
                   status, best_model, best_value, best_analysis>>

(***************************************************************************)
(* build_dfmm_forest: a tree is a function from node ids <<level, k>> to   *)
(* the sequence of its children.                                           *)
(***************************************************************************)
\* every child handed to the first parent of the level
RoundRobin_first_parent(child_node_ids, num_nodes_at_level, k) ==
    IF k = 0 THEN child_node_ids ELSE <<>>

\* the children that the round-robin of lines 143-157 hands to parent k
RoundRobin(child_node_ids, num_nodes_at_level, k) ==
    LET idx == {i \in DOMAIN child_node_ids : (i - 1) % num_nodes_at_level = k}
        nth(j) == CHOOSE i \in idx : Cardinality({h \in idx : h < i}) = j - 1
    IN [j \in 1..Cardinality(idx) |-> child_node_ids[nth(j)]]

\* the total of a level without the nodes of the level below
TotalInputsAtLevel_no_children(values_to_process, current_factor, child_node_ids) ==
    SumSeq([i \in DOMAIN values_to_process |->
               values_to_process[i] % current_factor])

\* line 125
TotalInputsAtLevel(values_to_process, current_factor, child_node_ids) ==
    SumSeq([i \in DOMAIN values_to_process |->
               values_to_process[i] % current_factor]) + Len(child_node_ids)

\* the node count rounded down instead of up
NumNodesAtLevel_floor(total_inputs_at_level, current_factor) ==
    IF total_inputs_at_level > 0
    THEN Floor(total_inputs_at_level, current_factor)
    ELSE 0

\* lines 129-133
NumNodesAtLevel(total_inputs_at_level, current_factor) ==
    IF total_inputs_at_level > 0
    THEN Ceil(total_inputs_at_level, current_factor)
    ELSE 0

\* one iteration of the level loop (lines 107-165), then the levels above
RECURSIVE BuildLevels(_, _, _, _, _)
BuildLevels(fs, level, values_to_process, child_node_ids, tree_structure) ==
    IF level < 0 THEN tree_structure
    ELSE
      LET current_factor == fs[level + 1]
          level_quotients == [i \in DOMAIN values_to_process |->
                                 values_to_process[i] \div current_factor]
          total_inputs_at_level ==
              TotalInputsAtLevel(values_to_process, current_factor, child_node_ids)
          num_nodes_at_level ==
              NumNodesAtLevel(total_inputs_at_level, current_factor)
          current_level_node_ids ==
              [k \in 1..num_nodes_at_level |-> <<level, k - 1>>]
          added == [n \in {<<level, k>> : k \in 0..(num_nodes_at_level - 1)} |->
                       RoundRobin(child_node_ids, num_nodes_at_level, n[2])]
      IN BuildLevels(fs, level - 1, level_quotients, current_level_node_ids,
                     tree_structure @@ added)

\* the tree of one target (lines 91-168)
BuildTree(target) ==
    BuildLevels(target.factors, Len(target.factors) - 1, target.ratios,
                <<>>, <<>>)

build_dfmm_forest(tc) == [m \in DOMAIN tc |-> BuildTree(tc[m])]

\* factors[level:]
Suffix(fs, level) == SubSeq(fs, level + 1, Len(fs))

\* get_p_for_node with the factor of the node's own level left out
RECURSIVE get_p_for_node_no_factor(_, _, _)
get_p_for_node_no_factor(tree_structure, fs, node_id) ==
    LET children == IF node_id \in DOMAIN tree_structure
                    THEN tree_structure[node_id] ELSE <<>>
    IN IF children = <<>>
       THEN prod(Suffix(fs, node_id[1]))
       ELSE MaxOf({get_p_for_node_no_factor(tree_structure, fs, children[i]) :
                      i \in DOMAIN children})

\* get_p_for_node giving a childless node the factor of its level only
RECURSIVE get_p_for_node_leaf_factor(_, _, _)
get_p_for_node_leaf_factor(tree_structure, fs, node_id) ==
    LET children == IF node_id \in DOMAIN tree_structure
                    THEN tree_structure[node_id] ELSE <<>>
    IN IF children = <<>>
       THEN fs[node_id[1] + 1]
       ELSE MaxOf({get_p_for_node_leaf_factor(tree_structure, fs, children[i]) :
                      i \in DOMAIN children}) * fs[node_id[1] + 1]

\* calculate_p_values_from_structure.get_p_for_node (lines 198-229)
RECURSIVE get_p_for_node(_, _, _)
get_p_for_node(tree_structure, fs, node_id) ==
    LET children == IF node_id \in DOMAIN tree_structure
                    THEN tree_structure[node_id] ELSE <<>>
    IN IF children = <<>>
       THEN prod(Suffix(fs, node_id[1]))
       ELSE MaxOf({get_p_for_node(tree_structure, fs, children[i]) :
                      i \in DOMAIN children}) * fs[node_id[1] + 1]

calculate_p_values_from_structure(forest_structure, tc) ==
    [m \in DOMAIN forest_structure |->
        [node_id \in DOMAIN forest_structure[m] |->
            get_p_for_node(forest_structure[m], tc[m].factors, node_id)]]

\* BaseRunner._run_single_optimization: the forest is built
BuildForest ==
    /\ pc = "build_forest"
    /\ tree_structures' = build_dfmm_forest(targets_config)
    /\ pc' = "p_values"
    /\ UNCHANGED <<Config, targets_config, target_i, remaining_sum, factors,
                   found, p_value_maps, peer_nodes, potential_sources_map,
                   built, status, best_model, best_value, best_analysis,
                   raised>>

\* BaseRunner._run_single_optimization lines 101-103
CalcPValues ==
    /\ pc = "p_values"
    /\ p_value_maps' =
           calculate_p_values_from_structure(tree_structures, targets_config)
    /\ pc' = "problem"
    /\ UNCHANGED <<Config, targets_config, target_i, remaining_sum, factors,
                   found, tree_structures, peer_nodes, potential_sources_map,
                   built, status, best_model, best_value, best_analysis,
                   raised>>

(***************************************************************************)
(* MTWMProblem: node skeleton, peer nodes, potential_sources_map.          *)
(***************************************************************************)
TargetIdx == 0..(Len(targets_config) - 1)

\* self.forest (_define_base_variables): the node ids of every tree
forest == [m \in TargetIdx |-> DOMAIN tree_structures[m + 1]]

\* all_dest_nodes (lines 233-238)
all_dest_nodes ==
    UNION {{<<m, n[1], n[2]>> : n \in forest[m]} : m \in TargetIdx}

PValue(node) == p_value_maps[node[1] + 1][<<node[2], node[3]>>]
FValue(m, level) == targets_config[m + 1].factors[level + 1]

\* tuple order of Python: (m, l, k) < (m2, l2, k2)
LexLess(a, b) ==
    \/ a[1] < b[1]
    \/ a[1] = b[1] /\ a[2] < b[2]
    \/ a[1] = b[1] /\ a[2] = b[2] /\ a[3] < b[3]

\* a finite set of triples as the sequence in tuple order
RECURSIVE SortedSeq(_)
SortedSeq(S) ==
    IF S = {} THEN <<>>
    ELSE LET lo == CHOOSE x \in S : \A y \in S \ {x} : LexLess(x, y)
         IN <<lo>> \o SortedSeq(S \ {lo})

\* the first n elements of a sequence (all of it when shorter)
Take(s, n) == SubSeq(s, 1, IF n < Len(s) THEN n ELSE Len(s))

\* _collect_dfmm_nodes_by_p_value: non-root nodes with P != F, in the order
\* of enumeration (target, level, node)
EligibleNodes ==
    LET ok(n) == n[2] # 0 /\ PValue(n) # FValue(n[1], n[2])
    IN SelectSeq(SortedSeq(all_dest_nodes), ok)

\* the keys of p_groups in insertion order
PGroupKeys ==
    LET first(i) == \A j \in 1..(i - 1) :
                        PValue(EligibleNodes[j]) # PValue(EligibleNodes[i])
        idx == {i \in DOMAIN EligibleNodes : first(i)}
        nth(j) == CHOOSE i \in idx : Cardinality({h \in idx : h < i}) = j - 1
    IN [j \in 1..Cardinality(idx) |-> PValue(EligibleNodes[nth(j)])]

\* p_groups[p_val]
PGroup(p_val) ==
    LET same(n) == PValue(n) = p_val
    IN SelectSeq(EligibleNodes, same)

\* _resolve_peer_limit_config (lines 146-163): <<limit_mode, global_limit>>
resolve_peer_limit_config ==
    LET limit_config == Config.PEER_NODE_LIMIT
        num_targets == Len(targets_config)
    IN IF limit_config[1] = "half_p_group" THEN <<"half_p_group", INF>>
       ELSE IF limit_config[1] = "int" THEN <<"global", limit_config[2]>>
       ELSE IF limit_config[1] = "half_targets"
            THEN <<"global", IF num_targets > 0 THEN Floor(num_targets, 2) ELSE 0>>
       ELSE <<"global", INF>>

\* group_limit without the special case of a group of three
GroupLimit_floor(n) == Floor(n, 2)

\* group_limit of lines 100-104 and 137-138
GroupLimit(n) == IF n = 3 THEN 2 ELSE Floor(n, 2)

\* _create_peer_node_entry (lines 207-225)
create_peer_node_entry(node_a_id, node_b_id, p_val) ==
    LET a == IF LexLess(node_b_id, node_a_id) THEN node_b_id ELSE node_a_id
        b == IF LexLess(node_b_id, node_a_id) THEN node_a_id ELSE node_b_id
    IN [name |-> <<"peer_mixer", a, b>>,
        source_a_id |-> a,
        source_b_id |-> b,
        p_value |-> p_val,
        is_generic |-> FALSE]

\* itertools.combinations(nodes_list, 2) as index pairs in generation order
Combinations2(n) ==
    LET pairs == {<<i, j, 0>> : i \in 1..n, j \in 1..n}
    IN SortedSeq({q \in pairs : q[1] < q[2]})

\* _generate_peers_from_list (lines 181-205); p_val_force = NoneVal is None
generate_peers_from_list(nodes_list, p_val_force, limit) ==
    LET valid(q) == \/ p_val_force # NoneVal
                    \/ PValue(nodes_list[q[1]]) = PValue(nodes_list[q[2]])
        kept == Take(SelectSeq(Combinations2(Len(nodes_list)), valid), limit)
    IN [i \in DOMAIN kept |->
           create_peer_node_entry(
               nodes_list[kept[i][1]], nodes_list[kept[i][2]],
               IF p_val_force # NoneVal THEN p_val_force
               ELSE PValue(nodes_list[kept[i][1]]))]

\* the generic peers of one P-value group (lines 108-114, 122-130)
GenericPeers(p_val, count) ==
    [i \in 1..count |->
        [name |-> <<"peer_gen", p_val, i - 1>>,
         p_value |-> p_val,
         candidate_sources |-> PGroup(p_val),
         is_generic |-> TRUE]]

\* what _create_dynamic_peer_nodes appends for one P-value group when
\* total_created generic peers exist already
DynamicPeersOfGroup(p_val, total_created, limit_mode, global_limit) ==
    LET n == Len(PGroup(p_val))
    IN IF n < 2 THEN <<>>
       ELSE IF limit_mode = "half_p_group"
            THEN GenericPeers(p_val, GroupLimit(n))
       ELSE LET room == IF global_limit > total_created
                        THEN global_limit - total_created ELSE 0
                num_to_make == Floor(n, 2)
            IN GenericPeers(p_val, IF room < num_to_make
                                   THEN room ELSE num_to_make)

\* _create_dynamic_peer_nodes (lines 91-130), from group g on
RECURSIVE create_dynamic_peer_nodes(_, _, _, _)
create_dynamic_peer_nodes(g, made, limit_mode, global_limit) ==
    IF g > Len(PGroupKeys) THEN made
    ELSE create_dynamic_peer_nodes(
             g + 1,
             made \o DynamicPeersOfGroup(PGroupKeys[g], Len(made),
                                         limit_mode, global_limit),
             limit_mode, global_limit)

\* all_nodes_flat of line 143
RECURSIVE AllNodesFlat(_)
AllNodesFlat(g) ==
    IF g > Len(PGroupKeys) THEN <<>>
    ELSE PGroup(PGroupKeys[g]) \o AllNodesFlat(g + 1)

\* the 'half_p_group' branch of _create_fixed_peer_nodes, from group g on
RECURSIVE FixedPeersPerGroup(_)
FixedPeersPerGroup(g) ==
    IF g > Len(PGroupKeys) THEN <<>>
    ELSE LET nodes_list == PGroup(PGroupKeys[g])
         IN (IF Len(nodes_list) < 2 THEN <<>>
             ELSE generate_peers_from_list(nodes_list, PGroupKeys[g],
                                           GroupLimit(Len(nodes_list))))
            \o FixedPeersPerGroup(g + 1)

\* _create_fixed_peer_nodes (lines 132-144)
create_fixed_peer_nodes(limit_mode, global_limit) ==
    IF limit_mode = "half_p_group"
    THEN FixedPeersPerGroup(1)
    ELSE generate_peers_from_list(AllNodesFlat(1), NoneVal, global_limit)

\* _define_peer_mixing_nodes (lines 68-89)
define_peer_mixing_nodes ==
    LET lim == resolve_peer_limit_config
    IN IF Config.PEER_CONNECTION_MODE = "dynamic"
       THEN create_dynamic_peer_nodes(1, <<>>, lim[1], lim[2])
       ELSE create_fixed_peer_nodes(lim[1], lim[2])

\* MTWMProblem.__init__ line 31
DefinePeerNodes ==
    /\ pc = "problem"
    /\ peer_nodes' = define_peer_mixing_nodes
    /\ pc' = "sources"
    /\ UNCHANGED <<Config, targets_config, target_i, remaining_sum, factors,
                   found, tree_structures, p_value_maps,
                   potential_sources_map, built, status, best_model,
                   best_value, best_analysis, raised>>

\* all_peer_sources (line 240)
all_peer_sources == {<<R, i - 1, 0>> : i \in DOMAIN peer_nodes}

\* all_sources (line 241)
all_sources == all_dest_nodes \cup all_peer_sources

\* the divisibility test with the destination's factor left out
DivisibilityOK_no_factor(p_dst, f_dst, p_src) == p_dst % p_src = 0

\* the divisibility test left out
DivisibilityOK_any(p_dst, f_dst, p_src) == TRUE

\* line 290: the source passes when (p_dst // f_dst) % p_src == 0
DivisibilityOK(p_dst, f_dst, p_src) == (p_dst \div f_dst) % p_src = 0

\* role-based pruning without the exemption of the parent-child edges
RoleAllowed_no_default_edge(dst, src) ==
    LET dst_target_idx == dst[1]
        dst_level == dst[2]
        src_target_idx == src[1]
        src_level == src[2]
        src_node_idx == src[3]
        role_id == (src_node_idx + src_target_idx) % 3
        num_targets == Len(targets_config)
        mode == Config.INTER_SHARING_MODE
    IN \/ /\ src_target_idx = dst_target_idx
          /\ \/ role_id = 0 /\ (src_level - dst_level) = 1
             \/ role_id = 1 /\ (src_level - dst_level) > 1
       \/ /\ src_target_idx # dst_target_idx
          /\ IF mode = "ring"
             THEN dst_target_idx = (src_target_idx + 1) % num_targets
             ELSE IF mode = "linear"
             THEN dst_target_idx = src_target_idx + 1
             ELSE role_id = 2

\* lines 296-348: role-based pruning of a DFMM source that passed the
\* physical checks
RoleAllowed(dst, src) ==
    LET dst_target_idx == dst[1]
        dst_level == dst[2]
        src_target_idx == src[1]
        src_level == src[2]
        src_node_idx == src[3]
        children == tree_structures[dst_target_idx + 1][<<dst_level, dst[3]>>]
        is_default_edge ==
            /\ src_target_idx = dst_target_idx
            /\ \E i \in DOMAIN children : children[i] = <<src_level, src_node_idx>>
        role_id == (src_node_idx + src_target_idx) % 3
        num_targets == Len(targets_config)
        mode == Config.INTER_SHARING_MODE
    IN \/ is_default_edge
       \/ /\ src_target_idx = dst_target_idx
          /\ \/ role_id = 0 /\ (src_level - dst_level) = 1
             \/ role_id = 1 /\ (src_level - dst_level) > 1
       \/ /\ src_target_idx # dst_target_idx
          /\ IF mode = "ring"
             THEN dst_target_idx = (src_target_idx + 1) % num_targets
             ELSE IF mode = "linear"
             THEN dst_target_idx = src_target_idx + 1
             ELSE role_id = 2

\* the body of the product loop without the MAX_LEVEL_DIFF test
IsPotentialSource_no_level_cap(dst, src) ==
    LET dst_level == dst[2]
        p_dst == PValue(dst)
        f_dst == FValue(dst[1], dst_level)
        is_peer == src[1] = R
        peer_node == peer_nodes[src[2] + 1]
        p_src == IF is_peer THEN peer_node.p_value ELSE PValue(src)
        l_src_eff ==
            IF is_peer
            THEN IF peer_node.is_generic THEN 999
                 ELSE IF peer_node.source_a_id[2] > peer_node.source_b_id[2]
                      THEN peer_node.source_a_id[2]
                      ELSE peer_node.source_b_id[2]
            ELSE src[2]
        is_valid_level_connection ==
            IF is_peer THEN l_src_eff > dst_level
            ELSE \/ l_src_eff > dst_level
                 \/ l_src_eff = 0 /\ Config.ENABLE_FINAL_PRODUCT_SHARING
    IN /\ is_peer \/ src # dst
       /\ is_valid_level_connection
       /\ DivisibilityOK(p_dst, f_dst, p_src)
       /\ \/ ~Config.ENABLE_ROLE_BASED_PRUNING
          \/ is_peer
          \/ RoleAllowed(dst, src)

\* the body of the product loop (lines 243-354): src is appended to
\* source_map[dst]
IsPotentialSource(dst, src) ==
    LET dst_level == dst[2]
        p_dst == PValue(dst)
        f_dst == FValue(dst[1], dst_level)
        is_peer == src[1] = R
        peer_node == peer_nodes[src[2] + 1]
        p_src == IF is_peer THEN peer_node.p_value ELSE PValue(src)
        l_src_eff ==
            IF is_peer
            THEN IF peer_node.is_generic THEN 999
                 ELSE IF peer_node.source_a_id[2] > peer_node.source_b_id[2]
                      THEN peer_node.source_a_id[2]
                      ELSE peer_node.source_b_id[2]
            ELSE src[2]
        is_valid_level_connection ==
            IF is_peer THEN l_src_eff > dst_level
            ELSE \/ l_src_eff > dst_level
                 \/ l_src_eff = 0 /\ Config.ENABLE_FINAL_PRODUCT_SHARING
        is_generic_peer == is_peer /\ peer_node.is_generic
    IN /\ is_peer \/ src # dst
       /\ is_valid_level_connection
       /\ \/ is_generic_peer
          \/ Config.MAX_LEVEL_DIFF = NoneVal
          \/ l_src_eff <= dst_level + Config.MAX_LEVEL_DIFF
       /\ DivisibilityOK(p_dst, f_dst, p_src)
       /\ \/ ~Config.ENABLE_ROLE_BASED_PRUNING
          \/ is_peer
          \/ RoleAllowed(dst, src)

\* _precompute_potential_sources_v2 (lines 229-356): only destinations
\* with at least one source become keys
precompute_potential_sources_v2 ==
    LET srcs(dst) == {src \in all_sources : IsPotentialSource(dst, src)}
    IN [dst \in {d \in all_dest_nodes : srcs(d) # {}} |-> srcs(dst)]

\* MTWMProblem.__init__ lines 34-37
PrecomputeSources ==
    /\ pc = "sources"
    /\ potential_sources_map' = precompute_potential_sources_v2
    /\ pc' = "solver_init"
    /\ UNCHANGED <<Config, targets_config, target_i, remaining_sum, factors,
                   found, tree_structures, p_value_maps, peer_nodes, built,
                   status, best_model, best_value, best_analysis, raised>>

\* potential_sources_map.get(dst, [])
PotentialSources(dst) ==
    IF dst \in DOMAIN potential_sources_map
    THEN potential_sources_map[dst] ELSE {}

(***************************************************************************)
(* Sharing keys (utils/helpers.py): the string "l1k0", "t0_l1k0" or        *)
(* "R_idx0" is the tuple of its prefix and its numbers.                    *)
(***************************************************************************)
create_intra_key(level, node_idx) == <<"l", NoneVal, level, node_idx>>
create_inter_key(target_idx, level, node_idx) ==
    <<"t", target_idx, level, node_idx>>
create_peer_key(peer_idx) == <<"R_idx", peer_idx, NoneVal, NoneVal>>

\* parse_sharing_key (lines 75-131): the prefix decides the type
parse_sharing_key(key) ==
    IF key[1] = "R_idx" THEN [type |-> "PEER", idx |-> key[2]]
    ELSE IF key[1] = "t"
    THEN [type |-> "DFMM", target_idx |-> key[2], level |-> key[3],
          node_idx |-> key[4]]
    ELSE [type |-> "INTRA", level |-> key[3], node_idx |-> key[4]]

\* _create_sharing_vars_for_node (lines 358-384): the keys of
\* intra_sharing_vars and of inter_sharing_vars of a destination
IntraKeys(dst) ==
    {create_intra_key(src[2], src[3]) :
        src \in {x \in PotentialSources(dst) : x[1] = dst[1]}}

InterKeys(dst) ==
    {create_peer_key(src[2]) :
        src \in {x \in PotentialSources(dst) : x[1] # dst[1] /\ x[1] = R}}
    \cup
    {create_inter_key(src[1], src[2], src[3]) :
        src \in {x \in PotentialSources(dst) : x[1] # dst[1] /\ x[1] # R}}

(***************************************************************************)
(* OrToolsSolver: the decision variables and the constraints it asserts.   *)
(* An assignment a maps every node id (DFMM <<m, l, k>>, peer              *)
(* <<R, i, 0>>) to the values of that node's variables.                    *)
(***************************************************************************)
num_reagents ==
    IF Len(targets_config) > 0 THEN Len(targets_config[1].ratios) ELSE 0

Reagents == 1..num_reagents

RECURSIVE SumSet(_, _)
SumSet(S, fn) ==
    IF S = {} THEN 0
    ELSE LET x == CHOOSE y \in S : TRUE
         IN fn[x] + SumSet(S \ {x}, fn)

\* the sum of the values of a dict
SumVals(fn) == SumSet(DOMAIN fn, fn)

IsPeerId(id) == id[1] = R
PeerOf(id) == peer_nodes[id[2] + 1]
NodeP(id) == IF IsPeerId(id) THEN PeerOf(id).p_value ELSE PValue(id)

\* Config.MAX_SHARING_VOLUME or f
SharingVolumeOr(f) ==
    IF Config.MAX_SHARING_VOLUME = NoneVal \/ Config.MAX_SHARING_VOLUME = 0
    THEN f ELSE Config.MAX_SHARING_VOLUME

Min2(x, y) == IF x < y THEN x ELSE y

\* line 154
reagent_max(n) == IF FValue(n[1], n[2]) - 1 > 0 THEN FValue(n[1], n[2]) - 1 ELSE 0

\* line 173
max_sharing_vol(n) ==
    Min2(FValue(n[1], n[2]), SharingVolumeOr(FValue(n[1], n[2])))

\* _iterate_all_nodes that passes over the level-0 nodes
iterate_all_nodes_skip_roots == {n \in all_dest_nodes : n[2] # 0}

\* _iterate_all_nodes (lines 307-312)
iterate_all_nodes == all_dest_nodes

\* the node a sharing key of destination dst refers to (lines 349-354,
\* 369-381)
KeySource(dst, key) ==
    LET parsed == parse_sharing_key(key)
    IN IF parsed.type = "PEER" THEN <<R, parsed.idx, 0>>
       ELSE IF parsed.type = "DFMM"
       THEN <<parsed.target_idx, parsed.level, parsed.node_idx>>
       ELSE <<dst[1], parsed.level, parsed.node_idx>>

\* _get_input_vars (lines 265-271)
get_input_vars(node_vars) ==
    SumSeq(node_vars.reagent_vars)
    + SumVals(node_vars.intra_sharing_vars)
    + SumVals(node_vars.inter_sharing_vars)

\* _set_conservation_constraints (lines 325-329)
ConservationOK(node_vars) ==
    node_vars.total_input_var = get_input_vars(node_vars)

\* _set_mixer_capacity_constraints (lines 413-426)
MixerCapacityOK(n, node_vars) ==
    LET f_value == FValue(n[1], n[2])
    IN IF n[2] = 0
       THEN node_vars.total_input_var = f_value /\ node_vars.is_active_var = 1
       ELSE /\ node_vars.is_active_var = 1 => node_vars.total_input_var = f_value
            /\ node_vars.is_active_var = 0 => node_vars.total_input_var = 0

\* the variables of a DFMM node that carry volume, within their domains
\* (lines 157-182), for the nodes the conservation and capacity
\* constraints are asserted on
FlowChoices(n) ==
    LET f_value == FValue(n[1], n[2])
        constrained == n \in iterate_all_nodes
    IN {fl \in [is_active_var : {0, 1},
                reagent_vars : [Reagents -> 0..reagent_max(n)],
                intra_sharing_vars : [IntraKeys(n) -> 0..max_sharing_vol(n)],
                inter_sharing_vars : [InterKeys(n) -> 0..max_sharing_vol(n)],
                total_input_var : 0..f_value] :
           constrained => ConservationOK(fl) /\ MixerCapacityOK(n, fl)}

\* the upper bound of the product variable of a sharing term (lines 356-360,
\* 376-384)
ProdUpperBound(src) ==
    IF IsPeerId(src) THEN PeerOf(src).p_value * 2
    ELSE NodeP(src) * Min2(FValue(src[1], src[2]),
                           SharingVolumeOr(FValue(src[1], src[2])))

\* lines 365, 386: p_dst // p_src
SharingScale(p_dst, p_src) == p_dst \div p_src

\* the right-hand side of the concentration equation of node n for reagent
\* t (lines 341-386), given the ratios of the sources in a
ConcentrationRhs(a, n, fl, t) ==
    LET p_dst == PValue(n)
        term(dict) ==
            [key \in DOMAIN dict |->
                LET src == KeySource(n, key)
                IN (a[src].ratio_vars[t] * dict[key])
                   * SharingScale(p_dst, NodeP(src))]
    IN p_dst * fl.reagent_vars[t]
       + SumVals(term(fl.intra_sharing_vars))
       + SumVals(term(fl.inter_sharing_vars))

\* the product variables of node n stay within their domains
ProdDomainOK(a, n, fl) ==
    LET ok(dict) ==
            \A key \in DOMAIN dict : \A t \in Reagents :
                a[KeySource(n, key)].ratio_vars[t] * dict[key]
                    <= ProdUpperBound(KeySource(n, key))
    IN ok(fl.intra_sharing_vars) /\ ok(fl.inter_sharing_vars)

\* _set_initial_constraints (lines 316-323)
InitialOK(n, t, ratio) ==
    (n[2] = 0 /\ n[3] = 0) => ratio = targets_config[n[1] + 1].ratios[t]

\* the concentration equation left unasserted
ConcentrationOK_dropped(a, n, fl, t, ratio) == TRUE

\* _set_concentration_constraints (line 388)
ConcentrationOK(a, n, fl, t, ratio) ==
    FValue(n[1], n[2]) * ratio = ConcentrationRhs(a, n, fl, t)

\* _set_leaf_node_constraints (lines 403-411)
LeafOK(n, fl, t, ratio) ==
    PValue(n) = FValue(n[1], n[2]) => ratio = fl.reagent_vars[t]

\* _set_ratio_sum_constraints (lines 390-401)
RatioSumOK(n, is_active, ratio_vars) ==
    /\ is_active = 1 => SumSeq(ratio_vars) = PValue(n)
    /\ is_active = 0 => \A t \in Reagents : ratio_vars[t] = 0

\* every sequence whose t-th element is drawn from sets[t]
RECURSIVE SeqProduct(_)
SeqProduct(sets) ==
    IF sets = <<>> THEN {<<>>}
    ELSE {<<x>> \o rest : x \in Head(sets), rest \in SeqProduct(Tail(sets))}

\* the ratio_vars of node n, within 0..p_node, allowed by the per-reagent
\* constraints and the ratio-sum constraint
RatioChoices(a, n, fl) ==
    LET constrained == n \in iterate_all_nodes
        perReagent ==
            [t \in Reagents |->
                {ratio \in 0..PValue(n) :
                    /\ InitialOK(n, t, ratio)
                    /\ constrained =>
                          /\ ConcentrationOK(a, n, fl, t, ratio)
                          /\ LeafOK(n, fl, t, ratio)}]
    IN {rv \in SeqProduct(perReagent) :
           constrained => RatioSumOK(n, fl.is_active_var, rv)}

\* the values a DFMM node can take once its sources are assigned
DfmmChoices(a, n, flows) ==
    UNION {{[is_active_var |-> fl.is_active_var,
             reagent_vars |-> fl.reagent_vars,
             intra_sharing_vars |-> fl.intra_sharing_vars,
             inter_sharing_vars |-> fl.inter_sharing_vars,
             total_input_var |-> fl.total_input_var,
             ratio_vars |-> rv] : rv \in RatioChoices(a, n, fl)} :
           fl \in {g \in flows : ProdDomainOK(a, n, g)}}

\* _set_fixed_peer_constraints (lines 501-529)
FixedPeerOK(a, peer, v) ==
    LET w_a == v.input_vars.from_a
        w_b == v.input_vars.from_b
        r_a == a[peer.source_a_id].ratio_vars
        r_b == a[peer.source_b_id].ratio_vars
    IN /\ v.total_input_var = w_a + w_b
       /\ v.is_active_var = 1 => w_a = 1 /\ w_b = 1
       /\ v.is_active_var = 0 => v.total_input_var = 0 /\ w_a = 0 /\ w_b = 0
       /\ v.is_active_var = 1 => SumSeq(v.ratio_vars) = peer.p_value
       /\ v.is_active_var = 0 => SumSeq(v.ratio_vars) = 0
       /\ v.is_active_var = 1 =>
             \A t \in Reagents : 2 * v.ratio_vars[t] = r_a[t] + r_b[t]

\* AddElement(idx, candidate_ratio_vars + [0], val) of lines 480-492
ElementOf(a, candidates, idx, t) ==
    IF idx = Len(candidates) THEN 0 ELSE a[candidates[idx + 1]].ratio_vars[t]

\* the dynamic peer constraints with idx1 < idx2 left out: the two indices
\* may select the same candidate
DynamicPeerOK_same_source(a, peer, v) ==
    LET idx1 == v.input_indices[1]
        idx2 == v.input_indices[2]
        candidates == peer.candidate_sources
        num_candidates == Len(candidates)
    IN /\ v.is_active_var = 1 =>
             idx1 < num_candidates /\ idx2 < num_candidates
       /\ v.is_active_var = 0 => idx1 = num_candidates /\ idx2 = num_candidates
       /\ v.is_active_var = 1 => v.total_input_var = 2
       /\ v.is_active_var = 0 => v.total_input_var = 0
       /\ \A t \in Reagents :
             2 * v.ratio_vars[t] = ElementOf(a, candidates, idx1, t)
                                  + ElementOf(a, candidates, idx2, t)
       /\ v.is_active_var = 1 => SumSeq(v.ratio_vars) = peer.p_value
       /\ v.is_active_var = 0 => SumSeq(v.ratio_vars) = 0

\* _set_dynamic_peer_constraints (lines 458-499)
DynamicPeerOK(a, peer, v) ==
    LET idx1 == v.input_indices[1]
        idx2 == v.input_indices[2]
        candidates == peer.candidate_sources
        num_candidates == Len(candidates)
    IN /\ v.is_active_var = 1 =>
             idx1 < num_candidates /\ idx2 < num_candidates /\ idx1 < idx2
       /\ v.is_active_var = 0 => idx1 = num_candidates /\ idx2 = num_candidates
       /\ v.is_active_var = 1 => v.total_input_var = 2
       /\ v.is_active_var = 0 => v.total_input_var = 0
       /\ \A t \in Reagents :
             /\ ElementOf(a, candidates, idx1, t) <= peer.p_value
             /\ ElementOf(a, candidates, idx2, t) <= peer.p_value
             /\ 2 * v.ratio_vars[t] = ElementOf(a, candidates, idx1, t)
                                      + ElementOf(a, candidates, idx2, t)
       /\ v.is_active_var = 1 => SumSeq(v.ratio_vars) = peer.p_value
       /\ v.is_active_var = 0 => SumSeq(v.ratio_vars) = 0

\* the variables of a peer node within their domains (lines 194-259) that
\* satisfy _set_peer_mixing_constraints (lines 450-456)
PeerChoices(a, id) ==
    LET peer == PeerOf(id)
        ratios == [Reagents -> 0..peer.p_value]
    IN IF peer.is_generic
       THEN {v \in [is_active_var : {0, 1},
                    total_input_var : 0..2,
                    input_indices : [1..2 -> 0..Len(peer.candidate_sources)],
                    ratio_vars : ratios] : DynamicPeerOK(a, peer, v)}
       ELSE {v \in [is_active_var : {0, 1},
                    total_input_var : 0..2,
                    input_vars : [from_a : 0..1, from_b : 0..1],
                    ratio_vars : ratios] : FixedPeerOK(a, peer, v)}

\* incoming_bools[src] of a peer node (lines 224-259): 0 when absent
IncomingBool(peer, v, src) ==
    IF peer.is_generic
    THEN IF \E c \in DOMAIN peer.candidate_sources :
                /\ peer.candidate_sources[c] = src
                /\ v.input_indices[1] = c - 1 \/ v.input_indices[2] = c - 1
         THEN 1 ELSE 0
    ELSE IF src = peer.source_b_id THEN v.input_vars.from_b
    ELSE IF src = peer.source_a_id THEN v.input_vars.from_a
    ELSE 0

\* _get_outgoing_vars (lines 273-294): the sum of the outgoing variables
get_outgoing_vars(a, src) ==
    LET key_intra == create_intra_key(src[2], src[3])
        key_inter == create_inter_key(src[1], src[2], src[3])
        toDfmm == [dst \in all_dest_nodes |->
                     IF src[1] = dst[1] /\ key_intra \in DOMAIN a[dst].intra_sharing_vars
                     THEN a[dst].intra_sharing_vars[key_intra]
                     ELSE IF src[1] # dst[1]
                             /\ key_inter \in DOMAIN a[dst].inter_sharing_vars
                     THEN a[dst].inter_sharing_vars[key_inter]
                     ELSE 0]
        toPeer == [id \in all_peer_sources |-> IncomingBool(PeerOf(id), a[id], src)]
    IN SumVals(toDfmm) + SumVals(toPeer)

\* _get_outgoing_vars_from_peer (lines 296-305)
get_outgoing_vars_from_peer(a, id) ==
    LET key_inter == create_peer_key(id[2])
        toDfmm == [dst \in all_dest_nodes |->
                     IF key_inter \in DOMAIN a[dst].inter_sharing_vars
                     THEN a[dst].inter_sharing_vars[key_inter]
                     ELSE 0]
    IN SumVals(toDfmm)

\* the total volume drawn from a node
TotalUsed(a, id) ==
    IF IsPeerId(id) THEN get_outgoing_vars_from_peer(a, id)
    ELSE get_outgoing_vars(a, id)

\* the activity linkage with the "at least one consumer" half left out
ActivityLink_no_consumer(is_active, total_used) ==
    is_active = 0 => total_used = 0

\* lines 438-440, 447-448
ActivityLink(is_active, total_used) ==
    /\ is_active = 1 => total_used >= 1
    /\ is_active = 0 => total_used = 0

\* _set_activity_constraints (lines 428-448)
ActivityOK(a) ==
    /\ \A n \in iterate_all_nodes :
          n[2] # 0 => ActivityLink(a[n].is_active_var, TotalUsed(a, n))
    /\ \A id \in all_peer_sources :
          ActivityLink(a[id].is_active_var, TotalUsed(a, id))

\* the generic peers with P-value p_val in peer_vars order (lines 576-579)
GenericPeersOfP(p_val) ==
    LET same(id) == PeerOf(id).is_generic /\ PeerOf(id).p_value = p_val
    IN SelectSeq(SortedSeq(all_peer_sources), same)

\* _set_symmetry_breaking_constraints (lines 560-591)
SymmetryBreakingOK(a) ==
    /\ \A n \in all_dest_nodes :
          <<n[1], n[2], n[3] + 1>> \in all_dest_nodes =>
              /\ a[n].is_active_var >= a[<<n[1], n[2], n[3] + 1>>].is_active_var
              /\ a[n].total_input_var >= a[<<n[1], n[2], n[3] + 1>>].total_input_var
    /\ \A id \in all_peer_sources :
          PeerOf(id).is_generic =>
              LET peers == GenericPeersOfP(PeerOf(id).p_value)
              IN \A i \in 1..(Len(peers) - 1) :
                    /\ a[peers[i]].is_active_var >= a[peers[i + 1]].is_active_var
                    /\ a[peers[i + 1]].is_active_var = 1 =>
                          a[peers[i]].input_indices[1]
                              <= a[peers[i + 1]].input_indices[1]

\* the nodes that get a total and an excess variable (lines 595-603)
excess_nodes ==
    LET max_limit == Config.MAX_TOTAL_REAGENT_INPUT_PER_NODE
    IN IF max_limit = NoneVal \/ max_limit <= 0 THEN {} ELSE iterate_all_nodes

\* the excess variable with the domain 0..0: the limit as a hard constraint
var_limit_hard(n) == 0

\* line 606: the upper end of the domains of total and excess
var_limit(n) == IF PValue(n) * 2 > 2000 THEN PValue(n) * 2 ELSE 2000

\* the least value the constraint excess >= total - max_limit (line 615)
\* leaves to the excess variable of node n; its domain starts at 0
excess_min(a, n) ==
    LET total == SumSeq(a[n].reagent_vars)
        max_limit == Config.MAX_TOTAL_REAGENT_INPUT_PER_NODE
    IN IF total - max_limit > 0 THEN total - max_limit ELSE 0

\* _set_max_reagent_input_per_node_constraint (lines 593-619): total and
\* excess have a value within 0..var_limit
MaxReagentInputOK(a) ==
    \A n \in excess_nodes :
        /\ SumSeq(a[n].reagent_vars) <= var_limit(n)
        /\ excess_min(a, n) <= var_limit(n)

\* lines 659-662 with every excess variable at its least value
total_penalty(a) ==
    SumVals([n \in excess_nodes |-> excess_min(a, n)]) * 1000

\* the waste variables that enter the objective (lines 628-645)
all_waste_nodes ==
    {n \in iterate_all_nodes : n[2] # 0} \cup all_peer_sources

\* the domain of waste_var (lines 170, 204)
WasteDomain(id) == 0..(IF IsPeerId(id) THEN 2 ELSE FValue(id[1], id[2]))

\* lines 634, 644: waste_var == total_prod - total_used
WasteOf(a, id) == a[id].total_input_var - TotalUsed(a, id)

\* the objective terms of lines 648-656
total_waste(a) == SumVals([id \in all_waste_nodes |-> WasteOf(a, id)])
total_operations(a) ==
    SumVals([id \in iterate_all_nodes \cup all_peer_sources |->
                a[id].is_active_var])
total_reagents(a) ==
    SumVals([n \in iterate_all_nodes |-> SumSeq(a[n].reagent_vars)])

\* the hard constraint that the objective mode brings (lines 651-653)
WasteFloorOK(a, objective_mode) ==
    objective_mode = "waste" => total_waste(a) >= 1

\* what _set_objective_function minimises (lines 665-673)
ObjectiveMetric(a, objective_mode) ==
    IF objective_mode = "waste" THEN total_waste(a)
    ELSE IF objective_mode = "operations" THEN total_operations(a)
    ELSE total_reagents(a)

\* the least objective value of the assignment a of the node variables
ObjectiveValue(a, objective_mode) ==
    ObjectiveMetric(a, objective_mode) + total_penalty(a)

\* the constraints that link variables of several nodes
GlobalOK(a) ==
    /\ ActivityOK(a)
    /\ SymmetryBreakingOK(a)
    /\ \A id \in all_waste_nodes : WasteOf(a, id) \in WasteDomain(id)
    /\ MaxReagentInputOK(a)

(***************************************************************************)
(* The search space of the solver: nodes are assigned in an order in       *)
(* which every source comes before its consumers.                          *)
(***************************************************************************)
AllIds == all_dest_nodes \cup all_peer_sources

Rank(id) == 2 * NodeP(id) + (IF IsPeerId(id) THEN 1 ELSE 0)

RECURSIVE OrderOf(_)
OrderOf(S) ==
    IF S = {} THEN <<>>
    ELSE LET lo == CHOOSE x \in S : \A y \in S \ {x} :
                       \/ Rank(x) < Rank(y)
                       \/ Rank(x) = Rank(y) /\ LexLess(x, y)
         IN <<lo>> \o OrderOf(S \ {lo})

\* a source that is already known to be inactive supplies nothing
InactiveSourcesUnused(a, n, v) ==
    LET governed(src) == IsPeerId(src) \/ (src \in iterate_all_nodes /\ src[2] # 0)
        ok(dict) == \A key \in DOMAIN dict :
                        /\ governed(KeySource(n, key))
                        /\ a[KeySource(n, key)].is_active_var = 0
                        => dict[key] = 0
    IN ok(v.intra_sharing_vars) /\ ok(v.inter_sharing_vars)

\* _set_input_degree_constraints (lines 531-558)
InputDegreeOK(id, v) ==
    LET max_fan_in == Config.MAX_SHARED_INPUTS
    IN max_fan_in # NoneVal =>
          IF IsPeerId(id)
          THEN max_fan_in < 2 /\ PeerOf(id).is_generic => v.is_active_var = 0
          ELSE id \in iterate_all_nodes =>
                  Cardinality({key \in DOMAIN v.intra_sharing_vars :
                                  v.intra_sharing_vars[key] > 0})
                  + Cardinality({key \in DOMAIN v.inter_sharing_vars :
                                  v.inter_sharing_vars[key] > 0}) <= max_fan_in

NodeChoices(a, id, flows) ==
    IF IsPeerId(id) THEN {v \in PeerChoices(a, id) : InputDegreeOK(id, v)}
    ELSE {v \in DfmmChoices(a, id, flows) :
             InputDegreeOK(id, v) /\ InactiveSourcesUnused(a, id, v)}

\* a node without any admissible flow leaves no assignment at all
RECURSIVE Extend(_, _, _)
Extend(order, i, partials) ==
    IF i > Len(order) THEN partials
    ELSE LET id == order[i]
             flows == IF IsPeerId(id) THEN {} ELSE FlowChoices(id)
         IN IF ~IsPeerId(id) /\ Cardinality(flows) = 0 THEN {}
            ELSE Extend(order, i + 1,
                        UNION {{(id :> v) @@ a : v \in NodeChoices(a, id, flows)} :
                                  a \in partials})

\* every assignment of the node variables that satisfies the constraints
\* asserted by _set_variables_and_constraints for the objective mode
FeasibleAssignments(objective_mode) ==
    {a \in Extend(OrderOf(AllIds), 1, {<<>>}) :
        GlobalOK(a) /\ WasteFloorOK(a, objective_mode)}

(***************************************************************************)
(* core/solver/solution.py: OrToolsSolutionModel.analyze                   *)
(***************************************************************************)
create_dfmm_node_name(target_idx, level, node_idx) ==
    <<"mixer", target_idx, level, node_idx>>

\* _generate_mixing_description (lines 96-119): the inputs with a value > 0
generate_mixing_description(a, n) ==
    LET v == a[n]
        reagents == SelectSeq([t \in Reagents |->
                                  [val |-> v.reagent_vars[t],
                                   name |-> <<"Reagent", 0, 0, t>>]],
                              LAMBDA e : e.val > 0)
        srcs == SortedSeq(PotentialSources(n))
        shared == [i \in DOMAIN srcs |->
                     LET src == srcs[i]
                     IN IF IsPeerId(src)
                        THEN [val |-> v.inter_sharing_vars[create_peer_key(src[2])],
                              name |-> PeerOf(src).name]
                        ELSE IF src[1] = n[1]
                        THEN [val |-> v.intra_sharing_vars[
                                          create_intra_key(src[2], src[3])],
                              name |-> create_dfmm_node_name(n[1], src[2], src[3])]
                        ELSE [val |-> v.inter_sharing_vars[
                                          create_inter_key(src[1], src[2], src[3])],
                              name |-> create_dfmm_node_name(src[1], src[2], src[3])]]
        intra == SelectSeq(shared, LAMBDA e : e.val > 0 /\ e.name[1] = "mixer"
                                              /\ e.name[2] = n[1])
        inter == SelectSeq(shared, LAMBDA e : e.val > 0 /\ ~(e.name[1] = "mixer"
                                              /\ e.name[2] = n[1]))
    IN reagents \o intra \o inter

\* the nodes that analyze reports: total_input # 0 (lines 39-40, 70-71)
ReportedNodes(a) == {id \in AllIds : a[id].total_input_var # 0}

\* line 77 reads "source_a_id", which a generic peer entry does not have
analyze_raises(a) ==
    \E id \in all_peer_sources :
        /\ a[id].total_input_var # 0
        /\ "source_a_id" \notin DOMAIN PeerOf(id)

\* the sort key of line 93, doubled to stay integral, and the position in
\* the list before the (stable) sort
DetailKey(id) ==
    IF IsPeerId(id)
    THEN <<0 - 1, PeerOf(id).source_a_id[2] + PeerOf(id).source_b_id[2] - 1, id[2]>>
    ELSE <<id[1], 2 * id[2], id[3]>>

RECURSIVE SortByDetailKey(_)
SortByDetailKey(S) ==
    IF S = {} THEN <<>>
    ELSE LET lo == CHOOSE x \in S :
                       \A y \in S \ {x} : LexLess(DetailKey(x), DetailKey(y))
         IN <<lo>> \o SortByDetailKey(S \ {lo})

\* one record of nodes_details (lines 56-65, 82-91)
NodeDetail(a, id) ==
    IF IsPeerId(id)
    THEN [target_id |-> 0 - 1,
          level_x2 |-> DetailKey(id)[2],
          name |-> PeerOf(id).name,
          total_input |-> a[id].total_input_var,
          ratio_composition |-> a[id].ratio_vars,
          mixing_str |-> <<[val |-> 1,
                            name |-> create_dfmm_node_name(
                                PeerOf(id).source_a_id[1], PeerOf(id).source_a_id[2],
                                PeerOf(id).source_a_id[3])],
                           [val |-> 1,
                            name |-> create_dfmm_node_name(
                                PeerOf(id).source_b_id[1], PeerOf(id).source_b_id[2],
                                PeerOf(id).source_b_id[3])]>>]
    ELSE [target_id |-> id[1],
          level_x2 |-> 2 * id[2],
          name |-> create_dfmm_node_name(id[1], id[2], id[3]),
          total_input |-> a[id].total_input_var,
          ratio_composition |-> a[id].ratio_vars,
          mixing_str |-> generate_mixing_description(a, id)]

\* analyze (lines 24-94) when it returns
analyze(a) ==
    LET reported == ReportedNodes(a)
        dfmm == reported \cap all_dest_nodes
        order == SortByDetailKey(reported)
        usage == [t \in Reagents |-> SumVals([n \in dfmm |-> a[n].reagent_vars[t]])]
    IN [total_operations |-> Cardinality(reported),
        total_reagent_units |-> SumSeq(usage),
        total_waste |-> SumVals([id \in {x \in reported : x[2] # 0 \/ IsPeerId(x)} |->
                                    WasteOf(a, id)]),
        reagent_usage |-> [r_idx \in {t - 1 : t \in {u \in Reagents : usage[u] > 0}} |->
                              usage[r_idx + 1]],
        nodes_details |-> [i \in DOMAIN order |-> NodeDetail(a, order[i])]]

(***************************************************************************)
(* OrToolsSolver.__init__ and solve (core/solver/engine.py)                *)
(***************************************************************************)
KnownModes == {"waste", "operations", "reagents"}

\* the steps of _set_variables_and_constraints (lines 117-139) up to the
\* objective function
PhasesBeforeObjective ==
    <<"configure_solver", "define_or_tools_variables", "initial_constraints",
      "conservation_constraints", "concentration_constraints",
      "ratio_sum_constraints", "leaf_node_constraints",
      "mixer_capacity_constraints", "symmetry_breaking_constraints",
      "activity_constraints", "peer_mixing_constraints",
      "input_degree_constraints", "max_reagent_input_per_node_constraint">>

\* OrToolsSolver(problem, objective_mode) of base_runner.py line 127
OrToolsSolverInit ==
    /\ pc = "solver_init"
    /\ IF Config.OPTIMIZATION_MODE \in KnownModes
       THEN /\ built' = PhasesBeforeObjective
                           \o <<"objective_function", "search_strategy">>
            /\ pc' = "solve"
            /\ UNCHANGED raised
       ELSE /\ built' = PhasesBeforeObjective
            /\ raised' = "ValueError"
            /\ pc' = "error"
    /\ UNCHANGED <<Config, targets_config, target_i, remaining_sum, factors,
                   found, tree_structures, p_value_maps, peer_nodes,
                   potential_sources_map, status, best_model, best_value,
                   best_analysis>>

\* the assignments CP-SAT may report with status OPTIMAL
OptimalAssignments(F, objective_mode) ==
    LET values == {ObjectiveValue(a, objective_mode) : a \in F}
        best == CHOOSE x \in values : \A y \in values : x <= y
    IN IF F = {} THEN {} ELSE {a \in F : ObjectiveValue(a, objective_mode) = best}

\* by how much the sum of the excess variables of a reported solution may
\* exceed its least value: nothing when the solution is OPTIMAL
ExcessSlack(a, st) ==
    IF st = "OPTIMAL" \/ excess_nodes = {} THEN {0}
    ELSE {x \in 0..MaxExcessSlack :
             \E n \in excess_nodes : excess_min(a, n) + x <= var_limit(n)}

\* solve (lines 87-115)
solve ==
    /\ pc = "solve"
    /\ LET objective_mode == Config.OPTIMIZATION_MODE
           F == FeasibleAssignments(objective_mode)
       IN \/ /\ \/ Cardinality(F) = 0 /\ status' = "INFEASIBLE"
                \/ status' = "UNKNOWN"
             /\ pc' = "done"
             /\ UNCHANGED <<best_model, best_value, best_analysis, raised>>
          \/ \E st \in {"OPTIMAL", "FEASIBLE"} :
               \E a \in IF st = "OPTIMAL" THEN OptimalAssignments(F, objective_mode)
                        ELSE F :
                  /\ status' = st
                  /\ IF analyze_raises(a)
                     THEN /\ raised' = "KeyError"
                          /\ pc' = "error"
                          /\ UNCHANGED <<best_model, best_value, best_analysis>>
                     ELSE /\ best_model' = <<a>>
                          /\ \E slack \in ExcessSlack(a, st) :
                                best_value' = <<ObjectiveValue(a, objective_mode)
                                                + slack * 1000>>
                          /\ best_analysis' = <<analyze(a)>>
                          /\ pc' = "done"
                          /\ UNCHANGED raised
    /\ UNCHANGED <<Config, targets_config, target_i, remaining_sum, factors,
                   found, tree_structures, p_value_maps, peer_nodes,
                   potential_sources_map, built>>

(***************************************************************************)
(* The factorizer runs: one or two targets in 'auto' mode.                 *)
(***************************************************************************)
RatiosF == {<<a, b>> : a \in 0..MaxRatioF, b \in 0..MaxRatioF}

InitFactor ==
    /\ pc = "auto_call"
    /\ \E mx \in 1..MaxMixerF :
          Config = [BaseConfig EXCEPT !.MODE = "auto", !.MAX_MIXER_SIZE = mx]
    /\ \E r \in RatiosF :
          targets_config \in {<<[ratios |-> r, factors |-> <<>>]>>,
                              <<[ratios |-> <<1, 3>>, factors |-> <<>>],
                                [ratios |-> r, factors |-> <<>>]>>}
    /\ target_i = 1
    /\ remaining_sum = 0
    /\ factors = <<>>
    /\ found = [none |-> FALSE, factors |-> <<>>]
    /\ tree_structures = <<>>
    /\ p_value_maps = <<>>
    /\ peer_nodes = <<>>
    /\ potential_sources_map = <<>>
    /\ built = <<>>
    /\ status = "NOT_RUN"
    /\ best_model = <<>>
    /\ best_value = <<>>
    /\ best_analysis = <<>>
    /\ raised = "no"

NextFactor ==
    \/ FindFactorsEnter
    \/ FindFactorsIterate
    \/ FindFactorsReturn
    \/ RunnerTakeFactors
    \/ BuildForest

SpecFactor == InitFactor /\ [][NextFactor]_vars

(***************************************************************************)
(* The forest runs: build_dfmm_forest and calculate_p_values_from_structure*)
(* on one target with any factor list (the product of the factors is not   *)
(* validated against the ratio sum anywhere in the code).                  *)
(***************************************************************************)
\* every factor list of at most MaxForestLevels factors in 2..MaxForestFactor
ForestFactorLists ==
    UNION {[1..n -> 2..MaxForestFactor] : n \in 0..MaxForestLevels}

\* every ratio list of at most MaxForestReagents ratios in 0..MaxForestRatio
ForestRatioLists ==
    UNION {[1..n -> 0..MaxForestRatio] : n \in 1..MaxForestReagents}

InitForest ==
    /\ pc = "build_forest"
    /\ Config = BaseConfig
    /\ \E r \in ForestRatioLists, f \in ForestFactorLists :
          targets_config = <<[ratios |-> r, factors |-> f]>>
    /\ target_i = 1
    /\ remaining_sum = 0
    /\ factors = <<>>
    /\ found = [none |-> FALSE, factors |-> <<>>]
    /\ tree_structures = <<>>
    /\ p_value_maps = <<>>
    /\ peer_nodes = <<>>
    /\ potential_sources_map = <<>>
    /\ built = <<>>
    /\ status = "NOT_RUN"
    /\ best_model = <<>>
    /\ best_value = <<>>
    /\ best_analysis = <<>>
    /\ raised = "no"

NextForest ==
    \/ BuildForest
    \/ CalcPValues

SpecForest == InitForest /\ [][NextForest]_vars

(***************************************************************************)
(* The structure runs: 'manual' mode, targets given with their factors,    *)
(* product(factors) = sum(ratios), under every configuration.              *)
(***************************************************************************)
\* every factor list over 2..MaxFactor whose product is s
RECURSIVE FactorLists(_)
FactorLists(s) ==
    IF s = 1 THEN {<<>>}
    ELSE UNION {{<<d>> \o t : t \in FactorLists(s \div d)} :
                   d \in {e \in 2..MaxFactor : s % e = 0}}

\* the ratio lists of n positive integers with sum at most MaxSum
RatioLists(n) ==
    {r \in [1..n -> 1..MaxSum] : SumSeq(r) <= MaxSum}

TargetsOf(n) ==
    UNION {{[ratios |-> r, factors |-> f] : f \in FactorLists(SumSeq(r))} :
              r \in RatioLists(n)}

\* lists of 1..MaxTargets targets over the same reagents
TargetLists ==
    UNION {UNION {[1..t -> TargetsOf(n)] : t \in 1..MaxTargets} :
              n \in 1..MaxReagents}

StructureConfigs ==
    {[BaseConfig EXCEPT
        !.PEER_CONNECTION_MODE = pm,
        !.PEER_NODE_LIMIT = pl,
        !.MAX_LEVEL_DIFF = ld,
        !.ENABLE_FINAL_PRODUCT_SHARING = fp,
        !.ENABLE_ROLE_BASED_PRUNING = rp,
        !.INTER_SHARING_MODE = im] :
        pm \in {"fixed", "dynamic"},
        pl \in {<<"half_p_group", 0>>, <<"half_targets", 0>>,
                <<"unlimited", 0>>, <<"int", 1>>},
        ld \in {NoneVal} \cup 0..MaxLevelDiff,
        fp \in BOOLEAN,
        rp \in BOOLEAN,
        im \in {"all", "ring", "linear"}}

InitStructure ==
    /\ pc = "build_forest"
    /\ Config \in {c \in StructureConfigs :
                      c.ENABLE_ROLE_BASED_PRUNING \/ c.INTER_SHARING_MODE = "all"}
    /\ targets_config \in TargetLists
    /\ target_i = 1
    /\ remaining_sum = 0
    /\ factors = <<>>
    /\ found = [none |-> FALSE, factors |-> <<>>]
    /\ tree_structures = <<>>
    /\ p_value_maps = <<>>
    /\ peer_nodes = <<>>
    /\ potential_sources_map = <<>>
    /\ built = <<>>
    /\ status = "NOT_RUN"
    /\ best_model = <<>>
    /\ best_value = <<>>
    /\ best_analysis = <<>>
    /\ raised = "no"

NextStructure ==
    \/ BuildForest
    \/ CalcPValues
    \/ DefinePeerNodes
    \/ PrecomputeSources

SpecStructure == InitStructure /\ [][NextStructure]_vars

(***************************************************************************)
(* A whole run in 'manual' mode: forest, problem, solver, solve.           *)
(***************************************************************************)
\* targets over two reagents with ratio sum at most MaxSolveSum whose
\* first ratio is at most MaxSolveFirst
SolveTargetsOf ==
    UNION {{[ratios |-> r, factors |-> f] : f \in FactorLists(SumSeq(r))} :
              r \in {x \in [1..2 -> 1..MaxSolveSum] :
                        SumSeq(x) <= MaxSolveSum /\ x[1] <= MaxSolveFirst}}

SolveTargets ==
    UNION {[1..t -> SolveTargetsOf] : t \in 1..MaxSolveTargets}

SolveConfigs ==
    {[BaseConfig EXCEPT !.MODE = "manual",
                           !.OPTIMIZATION_MODE = om,
                           !.PEER_CONNECTION_MODE = pm] :
        om \in KnownModes \cup {"unknown"}, pm \in {"fixed", "dynamic"}}

Init ==
    /\ pc = "build_forest"
    /\ Config \in SolveConfigs
    /\ targets_config \in SolveTargets
    /\ target_i = 1
    /\ remaining_sum = 0
    /\ factors = <<>>
    /\ found = [none |-> FALSE, factors |-> <<>>]
    /\ tree_structures = <<>>
    /\ p_value_maps = <<>>
    /\ peer_nodes = <<>>
    /\ potential_sources_map = <<>>
    /\ built = <<>>
    /\ status = "NOT_RUN"
    /\ best_model = <<>>
    /\ best_value = <<>>
    /\ best_analysis = <<>>
    /\ raised = "no"

Next ==
    \/ BuildForest
    \/ CalcPValues
    \/ DefinePeerNodes
    \/ PrecomputeSources
    \/ OrToolsSolverInit
    \/ solve

Spec == Init /\ [][Next]_vars

(***************************************************************************)
(* A whole run in 'manual' mode with the optional constraints switched on: *)
(* final product sharing, role-based pruning, the fan-in limit and the     *)
(* soft limit on the reagent input of a node.                              *)
(***************************************************************************)
\* without pruning: one or two targets over two reagents with ratio sum at
\* most MaxOptionSum and first ratio at most MaxOptionFirst, under every
\* combination of final product sharing, fan-in limit and reagent limit
SharingConfigs ==
    {[BaseConfig EXCEPT !.MODE = "manual",
                           !.OPTIMIZATION_MODE = om,
                           !.ENABLE_FINAL_PRODUCT_SHARING = fp,
                           !.MAX_SHARED_INPUTS = msi,
                           !.MAX_TOTAL_REAGENT_INPUT_PER_NODE = cap] :
        om \in KnownModes, fp \in BOOLEAN,
        msi \in {NoneVal} \cup 1..MaxFanIn,
        cap \in {NoneVal} \cup 1..MaxReagentCap}

\* the ratio lists of n reagents with sum s, in non-decreasing order, whose
\* first ratio is at most first
SortedRatioLists(n, s, first) ==
    {r \in [1..n -> 1..s] :
        /\ SumSeq(r) = s
        /\ r[1] <= first
        /\ \A i \in 1..(n - 1) : r[i] <= r[i + 1]}

\* n targets with the given ratio lists and every factor list of their sum
TargetListsOver(n, ratioLists) ==
    [1..n -> UNION {{[ratios |-> r, factors |-> f] :
                        f \in FactorLists(SumSeq(r))} : r \in ratioLists}]

\* one or two targets over two reagents with ratio sum at most MaxOptionSum
SharingTargets ==
    UNION {TargetListsOver(
               t, UNION {SortedRatioLists(2, sum, MaxOptionFirst) :
                            sum \in 2..MaxOptionSum}) :
           t \in 1..MaxSolveTargets}

\* with role-based pruning, which keeps the source map small
PrunedConfig ==
    [BaseConfig EXCEPT !.MODE = "manual",
                          !.OPTIMIZATION_MODE = "operations",
                          !.ENABLE_ROLE_BASED_PRUNING = TRUE]

\* fixed-pair peers, with and without a fan-in limit
PeerConfigs ==
    {[PrunedConfig EXCEPT !.PEER_CONNECTION_MODE = "fixed",
                             !.MAX_SHARED_INPUTS = msi] :
        msi \in {NoneVal} \cup 1..MaxFanIn}

\* two targets over MaxSymReagents reagents, whose levels hold several nodes
SymmetryTargets ==
    TargetListsOver(MaxSolveTargets,
                    SortedRatioLists(MaxSymReagents, MaxOptionSum, MaxOptionSum))

\* MaxPeerTargets targets over two reagents, whose nodes make two peer nodes
\* of one P-value
PeerTargets ==
    TargetListsOver(MaxPeerTargets,
                    SortedRatioLists(2, MaxPeerSum, MaxPeerFirst))

OptionRuns ==
    (SharingConfigs \X SharingTargets)
    \cup ({PrunedConfig} \X SymmetryTargets)
    \cup (PeerConfigs \X PeerTargets)

InitOptions ==
    /\ pc = "build_forest"
    /\ \E run \in OptionRuns : Config = run[1] /\ targets_config = run[2]
    /\ target_i = 1
    /\ remaining_sum = 0
    /\ factors = <<>>
    /\ found = [none |-> FALSE, factors |-> <<>>]
    /\ tree_structures = <<>>
    /\ p_value_maps = <<>>
    /\ peer_nodes = <<>>
    /\ potential_sources_map = <<>>
    /\ built = <<>>
    /\ status = "NOT_RUN"
    /\ best_model = <<>>
    /\ best_value = <<>>
    /\ best_analysis = <<>>
    /\ raised = "no"

NextOptions ==
    \/ BuildForest
    \/ CalcPValues
    \/ DefinePeerNodes
    \/ PrecomputeSources
    \/ OrToolsSolverInit
    \/ solve

SpecOptions == InitOptions /\ [][NextOptions]_vars

(***************************************************************************)
(* Claims                                                                  *)
(***************************************************************************)
IsPrime(p) == p >= 2 /\ \A d \in 2..(p - 1) : p % d # 0

HasPrimeFactorAbove(s, mx) ==
    \E p \in 2..s : IsPrime(p) /\ s % p = 0 /\ p > mx

IsNonIncreasing(fs) == \A i \in 1..(Len(fs) - 1) : fs[i] >= fs[i + 1]

\* C4: for s > 1 and max_factor >= 2 with every prime factor of s at most
\* max_factor, find_factors_for_sum terminates (every iteration divides the
\* remaining sum by a recorded factor of at least 2, so that remaining sum
\* times the product of the recorded factors stays s) and returns factors
\* between 2 and max_factor, in non-increasing order, whose product is s;
\* s = 18 with max_factor = 5 gives [3, 3, 2].
C4_FactorsOfSum ==
    (ratio_sum > 1 /\ max_factor >= 2 /\ ~HasPrimeFactorAbove(ratio_sum, max_factor))
    => /\ pc = "auto_loop" =>
             /\ remaining_sum >= 1
             /\ remaining_sum * prod(factors) = ratio_sum
             /\ \A i \in DOMAIN factors : factors[i] >= 2
       /\ pc = "auto_returned" =>
             /\ ~found.none
             /\ prod(found.factors) = ratio_sum
             /\ \A i \in DOMAIN found.factors :
                   2 <= found.factors[i] /\ found.factors[i] <= max_factor
             /\ IsNonIncreasing(found.factors)
             /\ (ratio_sum = 18 /\ max_factor = 5) => found.factors = <<3, 3, 2>>

C4_Witness ==
    /\ pc = "auto_returned"
    /\ ratio_sum = 18
    /\ max_factor = 5
    /\ found = [none |-> FALSE, factors |-> <<3, 3, 2>>]

\* C5: find_factors_for_sum returns None exactly when s > 1 has a prime
\* factor above max_factor, and then no factor list at all; it returns the
\* empty list when s <= 1; in 'auto' mode the failure is raised as a
\* ValueError while no tree has been built, and no tree is built after it.
C5_FailureValue ==
    /\ pc = "auto_returned" =>
          /\ found.none <=> (ratio_sum > 1
                             /\ HasPrimeFactorAbove(ratio_sum, max_factor))
          /\ found.none => found.factors = <<>>
          /\ ratio_sum <= 1 => found = [none |-> FALSE, factors |-> <<>>]
    /\ raised = "ValueError" =>
          /\ pc = "error"
          /\ found.none
          /\ tree_structures = <<>>
    /\ tree_structures # <<>> =>
          \A i \in DOMAIN targets_config :
              prod(targets_config[i].factors) = SumSeq(targets_config[i].ratios)
              \/ SumSeq(targets_config[i].ratios) <= 1

C5_Witness ==
    /\ raised = "ValueError"
    /\ ratio_sum = 17
    /\ max_factor = 5
    /\ tree_structures = <<>>

\* C6: for every target with positive integer ratios (one reagent included)
\* and factors whose product is the ratio sum, build_dfmm_forest creates
\* exactly one node at level 0, the node (0, 0).
C6_SingleRoot ==
    tree_structures # <<>> =>
        \A i \in DOMAIN tree_structures :
            {n \in DOMAIN tree_structures[i] : n[1] = 0} = {<<0, 0>>}

\* C7: under every configuration, every (destination, source) entry of
\* potential_sources_map, DFMM source or peer source, satisfies
\* (P_dst // F_dst) % P_src = 0 with F_dst the destination level's factor.
C7_SourcesDivide ==
    pc = "solver_init" =>
        \A dst \in DOMAIN potential_sources_map :
            \A src \in potential_sources_map[dst] :
                (PValue(dst) \div FValue(dst[1], dst[2])) % NodeP(src) = 0

C7_Witness ==
    /\ pc = "solver_init"
    /\ Config.PEER_CONNECTION_MODE = "dynamic"
    /\ Config.ENABLE_ROLE_BASED_PRUNING
    /\ \E dst \in DOMAIN potential_sources_map :
          /\ \E src \in potential_sources_map[dst] : IsPeerId(src)
          /\ \E src \in potential_sources_map[dst] :
                ~IsPeerId(src) /\ src[1] # dst[1]
          /\ \E src \in potential_sources_map[dst] :
                ~IsPeerId(src) /\ src[1] = dst[1]

\* the assignments that satisfy the constraints of the mode being solved
Feasible == FeasibleAssignments(Config.OPTIMIZATION_MODE)

\* the volume that destination dst takes from source src in assignment a
Volume(a, src, dst) ==
    IF src \notin PotentialSources(dst) THEN 0
    ELSE IF IsPeerId(src) THEN a[dst].inter_sharing_vars[create_peer_key(src[2])]
    ELSE IF src[1] = dst[1]
    THEN a[dst].intra_sharing_vars[create_intra_key(src[2], src[3])]
    ELSE a[dst].inter_sharing_vars[create_inter_key(src[1], src[2], src[3])]

\* the total volume drawn from node id by DFMM destinations and peer nodes
Drawn(a, id) ==
    SumVals([dst \in all_dest_nodes |-> Volume(a, id, dst)])
    + (IF IsPeerId(id) THEN 0
       ELSE SumVals([p \in all_peer_sources |-> IncomingBool(PeerOf(p), a[p], id)]))

RootOf(m) == <<m, 0, 0>>

\* C1: in every assignment the solver can return the root (level 0, index
\* 0) of every target has the target's ratios as its ratio composition, and
\* whenever the status is OPTIMAL or FEASIBLE analyze reports that
\* composition for the root.
C1_RootReported ==
    /\ pc = "solve" =>
          \A a \in Feasible : \A m \in TargetIdx :
              a[RootOf(m)].ratio_vars = targets_config[m + 1].ratios
    /\ status \in {"OPTIMAL", "FEASIBLE"} =>
          /\ best_analysis # <<>>
          /\ \A m \in TargetIdx :
                \E i \in DOMAIN best_analysis[1].nodes_details :
                    /\ best_analysis[1].nodes_details[i].name =
                           create_dfmm_node_name(m, 0, 0)
                    /\ best_analysis[1].nodes_details[i].ratio_composition =
                           targets_config[m + 1].ratios

\* C2: in every feasible assignment, for every DFMM node dst and reagent
\* t, factor(dst) * ratio_dst[t] equals P_dst * reagent_input_dst[t] plus the
\* sum over the sources src of dst (intra-tree, inter-tree, peer) of
\* (P_dst / P_src) * ratio_src[t] * volume(src -> dst), and P_dst / P_src is
\* exact for every candidate edge.
C2_Concentration ==
    pc = "solve" =>
        /\ \A dst \in DOMAIN potential_sources_map :
              \A src \in potential_sources_map[dst] :
                  PValue(dst) % NodeP(src) = 0
        /\ \A a \in Feasible : \A dst \in all_dest_nodes : \A t \in Reagents :
              FValue(dst[1], dst[2]) * a[dst].ratio_vars[t]
              = PValue(dst) * a[dst].reagent_vars[t]
                + SumVals([src \in PotentialSources(dst) |->
                              (PValue(dst) \div NodeP(src))
                              * a[src].ratio_vars[t] * Volume(a, src, dst)])

\* a returned assignment in which some node takes liquid from a node of its
\* own tree, some from a node of another tree and some from a peer node
C2_Witness ==
    /\ pc = "done"
    /\ best_model # <<>>
    /\ \E dst \in all_dest_nodes : \E src \in PotentialSources(dst) :
          ~IsPeerId(src) /\ src[1] = dst[1] /\ Volume(best_model[1], src, dst) > 0
    /\ \E dst \in all_dest_nodes : \E src \in PotentialSources(dst) :
          ~IsPeerId(src) /\ src[1] # dst[1] /\ Volume(best_model[1], src, dst) > 0
    /\ \E dst \in all_dest_nodes : \E src \in PotentialSources(dst) :
          IsPeerId(src) /\ Volume(best_model[1], src, dst) > 0

\* C3: in every feasible assignment every DFMM node's reagent inputs and
\* sharing inputs add up to its total_input, which is factor(level) when the
\* node is active and 0 when it is not; every root is active and full.
C3_MassBalance ==
    pc = "solve" =>
        \A a \in Feasible : \A n \in all_dest_nodes :
            /\ SumSeq(a[n].reagent_vars)
               + SumVals([src \in PotentialSources(n) |-> Volume(a, src, n)])
               = a[n].total_input_var
            /\ a[n].is_active_var = 1 =>
                  a[n].total_input_var = FValue(n[1], n[2])
            /\ a[n].is_active_var = 0 => a[n].total_input_var = 0
            /\ n[2] = 0 =>
                  /\ a[n].is_active_var = 1
                  /\ a[n].total_input_var = FValue(n[1], n[2])

\* a returned assignment with an idle node and with a full non-root node
\* that takes part of its input from another node
C3_Witness ==
    /\ pc = "done"
    /\ best_model # <<>>
    /\ \E n \in all_dest_nodes : best_model[1][n].total_input_var = 0
    /\ \E n \in all_dest_nodes :
          /\ n[2] # 0
          /\ best_model[1][n].total_input_var = FValue(n[1], n[2])
          /\ SumSeq(best_model[1][n].reagent_vars) < FValue(n[1], n[2])

\* C8: the three objective modes share one set of hard constraints, and
\* the OPTIMAL answer of each mode is the minimum of its metric over the
\* assignments satisfying them: the feasible set of the mode being solved
\* is the set of assignments allowed by the mode-independent constraints.
C8_ObjectiveModes ==
    pc = "solve" =>
        Feasible = {a \in Extend(OrderOf(AllIds), 1, {<<>>}) : GlobalOK(a)}

\* C9: in every feasible assignment a non-root DFMM node or a peer node is
\* active if and only if the total volume drawn from it is at least 1, and
\* an inactive node supplies 0 to every consumer.
C9_Activity ==
    pc = "solve" =>
        \A a \in Feasible :
            \A id \in {n \in all_dest_nodes : n[2] # 0} \cup all_peer_sources :
                /\ a[id].is_active_var = 1 <=> Drawn(a, id) >= 1
                /\ a[id].is_active_var = 0 =>
                      /\ \A dst \in all_dest_nodes : Volume(a, id, dst) = 0
                      /\ \A p \in all_peer_sources :
                            IsPeerId(id) \/ IncomingBool(PeerOf(p), a[p], id) = 0

\* a returned assignment with an active peer node, an active non-root DFMM
\* node and an inactive non-root DFMM node
C9_Witness ==
    /\ pc = "done"
    /\ best_model # <<>>
    /\ \E p \in all_peer_sources :
          best_model[1][p].is_active_var = 1 /\ Drawn(best_model[1], p) >= 1
    /\ \E n \in all_dest_nodes :
          n[2] # 0 /\ best_model[1][n].is_active_var = 1
    /\ \E n \in all_dest_nodes :
          n[2] # 0 /\ best_model[1][n].is_active_var = 0

\* C10: solve never raises; with a status other than OPTIMAL and FEASIBLE it
\* returns no solution, no objective value and no analysis, and with
\* OPTIMAL or FEASIBLE it returns a solution and its analysis.
C10_SolveReturns ==
    /\ ~(pc = "error" /\ raised = "KeyError")
    /\ pc = "done" =>
          IF status \in {"OPTIMAL", "FEASIBLE"}
          THEN best_model # <<>> /\ best_value # <<>> /\ best_analysis # <<>>
          ELSE best_model = <<>> /\ best_value = <<>> /\ best_analysis = <<>>

\* C11: when the objective mode is not 'waste', 'operations' or 'reagents',
\* building the solver model ends in a configuration error (ValueError) and
\* at that point no step that creates decision variables has run.
C11_AbortBeforeVariables ==
    (pc \in {"solve", "done", "error"} /\ Config.OPTIMIZATION_MODE \notin KnownModes) =>
        /\ pc = "error"
        /\ raised = "ValueError"
        /\ \A i \in DOMAIN built : built[i] # "define_or_tools_variables"

\* the name under which analyze reports node id
ReportedName(id) ==
    IF IsPeerId(id) THEN PeerOf(id).name
    ELSE create_dfmm_node_name(id[1], id[2], id[3])

\* C12: on every solved model (status OPTIMAL or FEASIBLE) analyze completes
\* without error, and nodes_details holds exactly one record, with the
\* solved total_input and ratio composition, for every DFMM node and every
\* peer node (fixed or generic) whose total_input is not 0, and no record
\* for a node whose total_input is 0.
C12_AnalyzeRecords ==
    /\ raised # "KeyError"
    /\ status \in {"OPTIMAL", "FEASIBLE"} =>
          /\ best_analysis # <<>>
          /\ \A id \in AllIds :
                LET recs == {i \in DOMAIN best_analysis[1].nodes_details :
                                best_analysis[1].nodes_details[i].name
                                    = ReportedName(id)}
                IN IF best_model[1][id].total_input_var = 0
                   THEN recs = {}
                   ELSE /\ Cardinality(recs) = 1
                        /\ \A i \in recs :
                              /\ best_analysis[1].nodes_details[i].total_input
                                     = best_model[1][id].total_input_var
                              /\ best_analysis[1].nodes_details[i].ratio_composition
                                     = best_model[1][id].ratio_vars
          /\ Len(best_analysis[1].nodes_details)
                 = Cardinality(ReportedNodes(best_model[1]))

\* the eligible nodes (non-root, P # factor) whose P-value is p
EligibleSet(p) ==
    {n \in all_dest_nodes :
        n[2] # 0 /\ PValue(n) # FValue(n[1], n[2]) /\ PValue(n) = p}

EligiblePValues ==
    {PValue(n) : n \in {x \in all_dest_nodes :
                           x[2] # 0 /\ PValue(x) # FValue(x[1], x[2])}}

\* the indices of the peer nodes whose P-value is p
PeersOfP(p) == {i \in DOMAIN peer_nodes : peer_nodes[i].p_value = p}

Tree == tree_structures[1]
TreeFactors == targets_config[1].factors
TreeRatios == targets_config[1].ratios
TreeP(n) == p_value_maps[1][n]

\* the premise of the default tree: positive ratios whose sum is the
\* product of the factors
ProperTarget ==
    /\ \A i \in DOMAIN TreeRatios : TreeRatios[i] > 0
    /\ prod(TreeFactors) = SumSeq(TreeRatios)

\* C14: after build_dfmm_forest and calculate_p_values_from_structure, the
\* P-value of every node is a multiple of the P-value of each of its
\* children and of the factor of its own level.
C14_PMultiples ==
    pc = "problem" =>
        \A n \in DOMAIN Tree :
            /\ TreeP(n) % TreeFactors[n[1] + 1] = 0
            /\ \A i \in DOMAIN Tree[n] :
                  /\ Tree[n][i] \in DOMAIN Tree
                  /\ TreeP(n) % TreeP(Tree[n][i]) = 0

\* a tree of three levels in which a node has two children
C14_Witness ==
    /\ pc = "problem"
    /\ Len(TreeFactors) = 3
    /\ \E n \in DOMAIN Tree : Len(Tree[n]) >= 2
    /\ \E n \in DOMAIN Tree : n[1] = 2

\* the value of reagent i that reaches level l: its ratio divided (rounding
\* down) by every factor of the levels below l
LevelValue(i, l) == TreeRatios[i] \div prod(Suffix(TreeFactors, l + 1))

\* the reagent remainders of level l
LevelRemainders(l) ==
    SumSeq([i \in DOMAIN TreeRatios |-> LevelValue(i, l) % TreeFactors[l + 1]])

\* the nodes of the tree at level l
NodesAtLevel(l) == {n \in DOMAIN Tree : n[1] = l}

\* the number of nodes expected at level l, from the level below it
RECURSIVE ExpectedNodes(_)
ExpectedNodes(l) ==
    IF l >= Len(TreeFactors) THEN 0
    ELSE LET total == LevelRemainders(l) + ExpectedNodes(l + 1)
             f == TreeFactors[l + 1]
         IN IF total = 0 THEN 0
            ELSE IF total % f = 0 THEN total \div f ELSE (total \div f) + 1

\* C15: build_dfmm_forest works from level len(factors)-1 down to level 0;
\* the nodes of a level are numbered from 0 and their number is
\* ceil((sum of the reagents' value mod factor + number of nodes of the
\* level processed just before) / factor), 0 when that total is 0, the value
\* of a reagent at a level being its quotient by the factors of the levels
\* processed before.
C15_LevelNodeCount ==
    pc \in {"p_values", "problem"} =>
        /\ \A n \in DOMAIN Tree : n[1] \in 0..(Len(TreeFactors) - 1)
        /\ \A l \in 0..(Len(TreeFactors) - 1) :
              NodesAtLevel(l) = {<<l, k>> : k \in 0..(ExpectedNodes(l) - 1)}

\* a tree with a level whose total of inputs is not a multiple of the
\* factor although it has child nodes, and with a level without nodes
C15_Witness ==
    /\ pc = "p_values"
    /\ \E l \in 0..(Len(TreeFactors) - 2) :
          /\ NodesAtLevel(l + 1) # {}
          /\ (LevelRemainders(l) + Cardinality(NodesAtLevel(l + 1)))
                 % TreeFactors[l + 1] # 0
          /\ Cardinality(NodesAtLevel(l)) >= 2
    /\ \E l \in 0..(Len(TreeFactors) - 1) : NodesAtLevel(l) = {}

\* the (parent, position) pairs under which node n is listed as a child
ParentSlots(n) ==
    {s \in UNION {{<<q, i>> : i \in DOMAIN Tree[q]} : q \in DOMAIN Tree} :
        Tree[s[1]][s[2]] = n}

\* C16: in a tree built from positive ratios and factors whose product is
\* the ratio sum, node i of level l+1 is listed as a child exactly once, by
\* node (i mod number of nodes of level l) of level l; children are listed
\* in index order; the root (0, 0) is nobody's child, and only the root.
C16_RoundRobinParents ==
    (pc \in {"p_values", "problem"} /\ ProperTarget) =>
        /\ \A n \in DOMAIN Tree :
              IF n[1] = 0 THEN n = <<0, 0>> /\ ParentSlots(n) = {}
              ELSE /\ NodesAtLevel(n[1] - 1) # {}
                   /\ Cardinality(ParentSlots(n)) = 1
                   /\ \A s \in ParentSlots(n) :
                         s[1] = <<n[1] - 1,
                                  n[2] % Cardinality(NodesAtLevel(n[1] - 1))>>
        /\ \A q \in DOMAIN Tree : \A i, j \in DOMAIN Tree[q] :
              i < j => Tree[q][i][2] < Tree[q][j][2]

\* a proper tree with a level of two parents that each have a child, and
\* with a parent that has two children
C16_Witness ==
    /\ pc = "p_values"
    /\ ProperTarget
    /\ \E q1, q2 \in DOMAIN Tree :
          q1 # q2 /\ q1[1] = q2[1] /\ Tree[q1] # <<>> /\ Tree[q2] # <<>>
    /\ \E q \in DOMAIN Tree : Len(Tree[q]) >= 2

\* C17: for positive ratios and factors whose product is the ratio sum, at
\* every level the total of inputs (reagent remainders plus nodes of the
\* level below) is exactly factor * number of nodes of the level: no mixer
\* of the default tree is partially filled.
C17_FullMixers ==
    (pc \in {"p_values", "problem"} /\ ProperTarget) =>
        \A l \in 0..(Len(TreeFactors) - 1) :
            LevelRemainders(l) + Cardinality(NodesAtLevel(l + 1))
            = TreeFactors[l + 1] * Cardinality(NodesAtLevel(l))

\* a proper tree of three levels with a level of two nodes that is filled
\* by reagent remainders and by child nodes
C17_Witness ==
    /\ pc = "p_values"
    /\ ProperTarget
    /\ Len(TreeFactors) = 3
    /\ \E l \in 0..(Len(TreeFactors) - 2) :
          /\ Cardinality(NodesAtLevel(l)) = 2
          /\ LevelRemainders(l) > 0
          /\ NodesAtLevel(l + 1) # {}

\* C18: every node created at level l gets P = product(factors[l:]),
\* with or without children, so P depends on the level only; for positive
\* ratios and factors whose product is the ratio sum the root's P-value is
\* product(factors) = sum(ratios).
C18_PIsSuffixProduct ==
    pc = "problem" =>
        /\ DOMAIN p_value_maps[1] = DOMAIN Tree
        /\ \A n \in DOMAIN Tree : TreeP(n) = prod(Suffix(TreeFactors, n[1]))
        /\ (ProperTarget /\ <<0, 0>> \in DOMAIN Tree) =>
              /\ TreeP(<<0, 0>>) = prod(TreeFactors)
              /\ TreeP(<<0, 0>>) = SumSeq(TreeRatios)

\* a proper tree of three levels with a childless node above the deepest level
\* next to a node of the same level that has children
C18_Witness ==
    /\ pc = "problem"
    /\ ProperTarget
    /\ Len(TreeFactors) = 3
    /\ \E n1, n2 \in DOMAIN Tree :
          /\ n1[1] = n2[1]
          /\ n1[1] < 2
          /\ Tree[n1] = <<>>
          /\ Tree[n2] # <<>>

\* the level that stands for a fixed peer in the level tests: the larger
\* of the levels of its two sources
PeerLevel(src) ==
    IF PeerOf(src).source_a_id[2] > PeerOf(src).source_b_id[2]
    THEN PeerOf(src).source_a_id[2]
    ELSE PeerOf(src).source_b_id[2]

\* C19: an entry (dst, src) of potential_sources_map with a DFMM source has
\* src # dst and src level > dst level, or src level 0 with
\* ENABLE_FINAL_PRODUCT_SHARING on; with a fixed-pair peer as source the
\* larger level of the pair is > dst level; and when MAX_LEVEL_DIFF is set
\* that source level is at most dst level + MAX_LEVEL_DIFF.
C19_SourceLevels ==
    pc = "solver_init" =>
        \A dst \in DOMAIN potential_sources_map :
            \A src \in potential_sources_map[dst] :
                IF ~IsPeerId(src)
                THEN /\ src # dst
                     /\ \/ src[2] > dst[2]
                        \/ src[2] = 0 /\ Config.ENABLE_FINAL_PRODUCT_SHARING
                     /\ Config.MAX_LEVEL_DIFF # NoneVal =>
                           src[2] <= dst[2] + Config.MAX_LEVEL_DIFF
                ELSE ~PeerOf(src).is_generic =>
                     /\ PeerLevel(src) > dst[2]
                     /\ Config.MAX_LEVEL_DIFF # NoneVal =>
                           PeerLevel(src) <= dst[2] + Config.MAX_LEVEL_DIFF

\* a source map, built with MAX_LEVEL_DIFF set and final-product sharing
\* on, that has a root as the source of another root, a fixed peer as a
\* source and a DFMM source one level below its destination
C19_Witness ==
    /\ pc = "solver_init"
    /\ Config.MAX_LEVEL_DIFF # NoneVal
    /\ Config.ENABLE_FINAL_PRODUCT_SHARING
    /\ \E dst \in DOMAIN potential_sources_map :
          \E src \in potential_sources_map[dst] :
              ~IsPeerId(src) /\ src[2] = 0 /\ dst[2] = 0
    /\ \E dst \in DOMAIN potential_sources_map :
          \E src \in potential_sources_map[dst] :
              IsPeerId(src) /\ ~PeerOf(src).is_generic
    /\ \E dst \in DOMAIN potential_sources_map :
          \E src \in potential_sources_map[dst] :
              ~IsPeerId(src) /\ src[2] = dst[2] + 1

\* the candidate flows: DFMM source or peer -> DFMM destination, and DFMM
\* source or candidate -> peer
CandidateFlows ==
    UNION {{<<src, dst>> : src \in potential_sources_map[dst]} :
              dst \in DOMAIN potential_sources_map}
    \cup UNION {{<<n, p>> : n \in
                   IF PeerOf(p).is_generic
                   THEN {PeerOf(p).candidate_sources[k] :
                            k \in DOMAIN PeerOf(p).candidate_sources}
                   ELSE {PeerOf(p).source_a_id, PeerOf(p).source_b_id}} :
                p \in all_peer_sources}

\* no cycle among nodes: peel off the nodes without an incoming flow
RECURSIVE Acyclic(_, _)
Acyclic(nodes, flows) ==
    IF nodes = {} THEN TRUE
    ELSE LET free == {n \in nodes : ~\E m \in nodes : <<m, n>> \in flows}
         IN free # {} /\ Acyclic(nodes \ free, flows)

\* C20: with all factors >= 2, for every entry (dst, src) of
\* potential_sources_map P_src divides P_dst and P_src < P_dst; a peer
\* node's P-value is the P-value of each of its two sources (fixed) or of
\* each of its candidates (dynamic); and the graph of candidate flows has
\* no cycle, under every configuration.
C20_NoFlowCycle ==
    pc = "solver_init" =>
        /\ \A dst \in DOMAIN potential_sources_map :
              \A src \in potential_sources_map[dst] :
                  /\ PValue(dst) % NodeP(src) = 0
                  /\ NodeP(src) < PValue(dst)
        /\ \A p \in all_peer_sources :
              IF PeerOf(p).is_generic
              THEN \A k \in DOMAIN PeerOf(p).candidate_sources :
                       PValue(PeerOf(p).candidate_sources[k]) = PeerOf(p).p_value
              ELSE /\ PValue(PeerOf(p).source_a_id) = PeerOf(p).p_value
                   /\ PValue(PeerOf(p).source_b_id) = PeerOf(p).p_value
        /\ Acyclic(all_sources, CandidateFlows)

\* a source map built with final-product sharing on and dynamic peers, in
\* which a root supplies another root and a generic peer supplies a node
C20_Witness ==
    /\ pc = "solver_init"
    /\ Config.ENABLE_FINAL_PRODUCT_SHARING
    /\ Config.PEER_CONNECTION_MODE = "dynamic"
    /\ \E dst \in DOMAIN potential_sources_map :
          \E src \in potential_sources_map[dst] :
              ~IsPeerId(src) /\ src[2] = 0 /\ dst[2] = 0
    /\ \E dst \in DOMAIN potential_sources_map :
          \E src \in potential_sources_map[dst] :
              IsPeerId(src) /\ PeerOf(src).is_generic

\* the role index of a DFMM source
RoleId(src) == (src[3] + src[1]) % 3

\* C21: with ENABLE_ROLE_BASED_PRUNING on, in any INTER_SHARING_MODE, and
\* MAX_LEVEL_DIFF unset or >= 1, every child c of every tree node p is an
\* entry of potential_sources_map[p], whatever the role index of c.
C21_DefaultEdgesKept ==
    (/\ pc = "solver_init"
     /\ Config.ENABLE_ROLE_BASED_PRUNING
     /\ Config.MAX_LEVEL_DIFF = NoneVal \/ Config.MAX_LEVEL_DIFF >= 1) =>
        \A m \in TargetIdx : \A p \in DOMAIN tree_structures[m + 1] :
            \A i \in DOMAIN tree_structures[m + 1][p] :
                LET c == tree_structures[m + 1][p][i]
                IN <<m, c[1], c[2]>> \in PotentialSources(<<m, p[1], p[2]>>)

\* a pruned source map that keeps a child of role 2 and a child of role 1
\* for their parents
C21_Witness ==
    /\ pc = "solver_init"
    /\ Config.ENABLE_ROLE_BASED_PRUNING
    /\ \A r \in {1, 2} :
          \E m \in TargetIdx : \E p \in DOMAIN tree_structures[m + 1] :
              \E i \in DOMAIN tree_structures[m + 1][p] :
                  LET c == tree_structures[m + 1][p][i]
                  IN /\ RoleId(<<m, c[1], c[2]>>) = r
                     /\ <<m, c[1], c[2]>> \in PotentialSources(<<m, p[1], p[2]>>)

\* C22: with ENABLE_ROLE_BASED_PRUNING on, an entry (dst, src) of
\* potential_sources_map whose DFMM source belongs to another target than
\* dst has a source of role index 2, in every INTER_SHARING_MODE; in 'ring'
\* and 'linear' mode dst is moreover in the next target (cyclically for
\* 'ring').
C22_InterTargetRole ==
    (pc = "solver_init" /\ Config.ENABLE_ROLE_BASED_PRUNING) =>
        \A dst \in DOMAIN potential_sources_map :
            \A src \in potential_sources_map[dst] :
                (~IsPeerId(src) /\ src[1] # dst[1]) =>
                    /\ RoleId(src) = 2
                    /\ Config.INTER_SHARING_MODE = "ring" =>
                          dst[1] = (src[1] + 1) % Len(targets_config)
                    /\ Config.INTER_SHARING_MODE = "linear" =>
                          dst[1] = src[1] + 1

\* the DFMM nodes that peer node p draws from in assignment a
PeerInputs(a, p) ==
    {src \in all_dest_nodes : IncomingBool(PeerOf(p), a[p], src) >= 1}

\* C23: in every feasible assignment an active peer node has total input 2,
\* one unit from each of two distinct source nodes whose P-value equals the
\* peer's and which are both active, and twice each of its ratios is the sum
\* of the two sources' ratios; an inactive peer node draws nothing and has
\* all ratios 0.
C23_PeerMixing ==
    pc = "solve" =>
        \A a \in Feasible : \A p \in all_peer_sources :
            LET v == a[p]
                srcs == PeerInputs(a, p)
            IN /\ v.is_active_var = 1 =>
                     /\ v.total_input_var = 2
                     /\ Cardinality(srcs) = 2
                     /\ \A s \in srcs :
                           /\ IncomingBool(PeerOf(p), v, s) = 1
                           /\ PValue(s) = PeerOf(p).p_value
                           /\ a[s].is_active_var = 1
                     /\ \A t \in Reagents :
                           2 * v.ratio_vars[t] =
                               SumVals([s \in srcs |-> a[s].ratio_vars[t]])
               /\ v.is_active_var = 0 =>
                     /\ v.total_input_var = 0
                     /\ srcs = {}
                     /\ \A t \in Reagents : v.ratio_vars[t] = 0

\* a dynamic-mode model whose generic peer node is active, with two sources,
\* in one feasible assignment and inactive in another one
C23_Witness ==
    /\ pc = "solve"
    /\ Config.PEER_CONNECTION_MODE = "dynamic"
    /\ \E a, b \in Feasible : \E p \in all_peer_sources :
          /\ a[p].is_active_var = 1
          /\ Cardinality(PeerInputs(a, p)) = 2
          /\ b[p].is_active_var = 0

\* the assignments that satisfy every constraint but the symmetry-breaking
\* ones
Unbroken ==
    {a \in Extend(OrderOf(AllIds), 1, {<<>>}) :
        /\ ActivityOK(a)
        /\ \A id \in all_waste_nodes : WasteOf(a, id) \in WasteDomain(id)
        /\ MaxReagentInputOK(a)
        /\ WasteFloorOK(a, Config.OPTIMIZATION_MODE)}

\* total waste, number of active nodes and reagent volume of an assignment
Metrics(a) == <<total_waste(a), total_operations(a), total_reagents(a)>>

\* the nodes that supply volume to other nodes: non-root DFMM nodes, peer
\* nodes, and roots when final product sharing is on
SourceNodes ==
    {n \in all_dest_nodes : n[2] # 0 \/ Config.ENABLE_FINAL_PRODUCT_SHARING}
    \cup all_peer_sources

\* C24: in every feasible assignment the total volume drawn from a source
\* node (a non-root DFMM node, a peer node, or a root when final product
\* sharing is on) is at most the node's total input.
C24_NoOverdraw ==
    pc = "solve" =>
        \A a \in Feasible : \A src \in SourceNodes :
            Drawn(a, src) <= a[src].total_input_var

\* the groups the claim orders: the DFMM nodes of one target and level, and
\* the peer nodes of one P-value, each in index order
OrderedGroups ==
    {{n \in all_dest_nodes : n[1] = g[1] /\ n[2] = g[2]} : g \in all_dest_nodes}
    \cup {{p \in all_peer_sources : NodeP(p) = NodeP(q)} : q \in all_peer_sources}

\* node k1 is the successor of node k within its group
Consecutive(k, k1) ==
    IF IsPeerId(k) THEN k1[2] = k[2] + 1 ELSE k1[3] = k[3] + 1

\* C25: in every feasible assignment, consecutive nodes k, k+1 of a
\* (target, level) group and of a group of peer nodes with one P-value
\* satisfy is_active(k) >= is_active(k+1) and
\* total_input(k) >= total_input(k+1).
C25_GroupsOrdered ==
    pc = "solve" =>
        \A a \in Feasible : \A g \in OrderedGroups : \A k, k1 \in g :
            Consecutive(k, k1) =>
                /\ a[k].is_active_var >= a[k1].is_active_var
                /\ a[k].total_input_var >= a[k1].total_input_var

\* C26: the symmetry-breaking constraints remove only permutation-equivalent
\* solutions: every assignment that is feasible without them has a
\* counterpart that is feasible with them and has the same total waste,
\* number of active nodes and reagent volume.
C26_SymmetryEquivalent ==
    pc = "solve" =>
        {Metrics(a) : a \in Unbroken} \subseteq {Metrics(a) : a \in Feasible}

\* the sources from which node id receives a non-zero volume in assignment a
UsedSources(a, id) ==
    IF IsPeerId(id) THEN PeerInputs(a, id)
    ELSE {src \in PotentialSources(id) : Volume(a, src, id) > 0}

\* C27: with MAX_SHARED_INPUTS = m, every DFMM node and every peer node
\* receives non-zero volume from at most m distinct sharing sources.
C27_FanIn ==
    (pc = "solve" /\ Config.MAX_SHARED_INPUTS # NoneVal) =>
        \A a \in Feasible : \A id \in AllIds :
            Cardinality(UsedSources(a, id)) <= Config.MAX_SHARED_INPUTS

\* the reagent volume of node n above the limit of the configuration
ExcessOver(a, n) ==
    LET over == SumSeq(a[n].reagent_vars)
                    - Config.MAX_TOTAL_REAGENT_INPUT_PER_NODE
    IN IF over > 0 THEN over ELSE 0

PhaseAt(name) ==
    IF \E i \in DOMAIN built : built[i] = name
    THEN CHOOSE i \in DOMAIN built : built[i] = name
    ELSE 0

\* the phases of _set_variables_and_constraints that assert constraints
ConstraintPhases ==
    {PhasesBeforeObjective[i] : i \in 3..Len(PhasesBeforeObjective)}

\* variables are defined before every constraint is asserted, and every
\* constraint before the objective is set
BuiltInOrder ==
    /\ PhaseAt("define_or_tools_variables") > 0
    /\ PhaseAt("objective_function") > 0
    /\ \A c \in ConstraintPhases :
          /\ PhaseAt("define_or_tools_variables") < PhaseAt(c)
          /\ PhaseAt(c) < PhaseAt("objective_function")

\* the solver has been invoked
Solved == status # "NOT_RUN"

\* the run is over
Ended == pc \in {"done", "error", "auto_returned"}

\* C29: the solver is invoked only on a model whose variables, constraints
\* and objective have been built in this order, and at most once; it is never
\* invoked when the objective mode is unknown, the configuration error being
\* raised instead; and a run in which it was invoked ends either with a
\* solution (status OPTIMAL or FEASIBLE) or with no solution (any other
\* status).
C29_BuildThenSolveOnce ==
    /\ [](pc = "solve" \/ Solved => BuiltInOrder)
    /\ [][status' # status => pc = "solve" /\ ~Solved]_vars
    /\ [](Config.OPTIMIZATION_MODE \notin KnownModes =>
              /\ ~Solved /\ pc # "solve"
              /\ Ended => raised = "ValueError")
    /\ []((Ended /\ Solved) =>
              /\ raised = "no"
              /\ status \in {"OPTIMAL", "FEASIBLE"} <=> best_model # <<>>)

\* C30: for every solved model (status OPTIMAL or FEASIBLE) analyze reports
\* total_operations equal to the number of nodes whose is_active variable is
\* 1, total_waste equal to the sum of the waste variables and
\* total_reagent_units equal to the sum of the reagent-input variables: the
\* metrics that the objective modes minimise, the penalty left out.
C30_TotalsAreMetrics ==
    (Ended /\ status \in {"OPTIMAL", "FEASIBLE"}) =>
        /\ best_analysis # <<>>
        /\ best_analysis[1].total_operations = total_operations(best_model[1])
        /\ best_analysis[1].total_waste = total_waste(best_model[1])
        /\ best_analysis[1].total_reagent_units = total_reagents(best_model[1])

====
